---- MODULE Spec2Model ----
(***************************************************************************)
(* TranscribeMonkey: the chunked transcription pipeline.                   *)
(*                                                                         *)
(* Each component is a state machine of its own code, with a specification *)
(* of its own over the one set of variables:                               *)
(*   SpecSplit       Transcriber.split_audio (the Segmenter)               *)
(*   SpecTranscribe  Transcriber.transcribe_chunks (the Orchestrator)      *)
(*   SpecTranslate   Translator.translate_text inside the GUI's loop       *)
(*   SpecCorrect     correct_srt_format / format_srt                       *)
(*   SpecRun         TranscribeMonkeyGUI.transcribe_audio, one whole run   *)
(*   SpecSave        transcribe_audio from format_transcript on            *)
(*   SpecTask        the window's controls and the runs started from it    *)
(*   FairSpecTask    SpecTask with the run's thread scheduled fairly       *)
(*   SpecTranslateSaved  SpecTranslate with the settings window saving   *)
(*   SpecDownload    Downloader.download_audio                             *)
(*   SpecConstruct   Transcriber.__init__ (device choice and fallback)     *)
(*   SpecWhisper     whisper_utils.download_whisper_model                  *)
(*   SpecSettings    settings_gui's save and the host's cached model       *)
(* The collaborators (ffmpeg, the Whisper model, the translation           *)
(* providers, the progress sink, the GUI thread that sets the stop event)  *)
(* are the environment: their answers are inputs drawn with \E, and what   *)
(* the code hands to them is logged.                                       *)
(*                                                                         *)
(* Audio times are whole seconds.  In chunk_paths the file "chunk_<i>.mp3" *)
(* is the number i.  Subtitle time strings are milliseconds.               *)
(***************************************************************************)
EXTENDS Integers, Sequences, FiniteSets, TLC

\* ------------------------------------------------------------------ bounds
MaxChunks == 2          \* chunk lists of 0..MaxChunks chunks (transcribe_chunks)
MaxChunkLength == 2     \* chunk_length in 1..MaxChunkLength seconds
MaxDuration == 5        \* probed duration in 0..MaxDuration seconds (split_audio)
MaxBlocks == 2          \* a model file of MaxBlocks blocks (download_whisper_model)
MaxDownloads == 2       \* download_whisper_model calls in a row
MaxAcquisitions == 3    \* download_audio calls in a row
MaxLoads == 3           \* models the host constructs for its cache

\* --------------------------------------------------------- python values
None == "<None>"
Unknown == "unknown"
Langs == {"en", "fr"}

\* Python truthiness of a str | None value.
Truthy(v) == v # None /\ v # ""

\* dict.get(key, default) on a recognizer result (a record whose fields are
\* the keys the dict has).
Get(d, key, default) == IF key \in DOMAIN d THEN d[key] ELSE default

Min(a, b) == IF a <= b THEN a ELSE b

\* ------------------------------------------------------------------ state
VARIABLES
    pc,                 \* position of the running method
    chunk_length,       \* seconds per chunk (settings 'chunk_length')
    duration,           \* split_audio: probed duration
    num_chunks,         \* split_audio: int(duration // chunk_length) + 1
    i,                  \* split_audio: loop index
    chunk_paths,        \* split_audio: list built; transcribe_chunks: argument
    ffmpeg_calls,       \* what split_audio asked of ffmpeg, in call order
    language,           \* transcribe_chunks: language hint or None
    progress_callback,  \* TRUE iff a progress sink was supplied
    stop_event,         \* "absent" (None passed), "clear" or "set"
    idx,                \* transcribe_chunks: loop index
    transcripts,        \* transcribe_chunks: aggregate segment list
    detected_language,  \* transcribe_chunks: detected language code
    model_calls,        \* every model.transcribe call with what it answered
    reports,            \* what the progress sink received, in call order
    returned,           \* <<>> or <<value returned>>
    raised,             \* <<>> or <<exception raised to the caller>>
    stop_when,          \* units started when the stop event was set, or -1
    status,             \* GUI: text of the status label
    retries,            \* Translator.retries
    attempt,            \* translate_text: attempt number of the primary loop
    target_language,    \* settings 'target_language', as a language code
    dest,               \* translate_text: its target_language argument
    provider_calls,     \* every translation provider call, in call order
    srt_content,        \* correct_srt_format: the document it was handed
    entries,            \* correct_srt_format: the entries parse_srt returned
    sorted_entries,     \* format_srt: the list being repaired
    files,              \* the files on disk: chunk i, "audio", "output"
    run_stage,          \* transcribe_audio: where the run is; "none": no run
    delete_temp_files,  \* settings 'delete_temp_files'
    stop_button,        \* GUI: state of the Stop button
    download_button,    \* GUI: state of the Download button
    file_button,        \* GUI: state of the Open File button
    model_variant,      \* settings 'model_variant'
    transcriber,        \* settings window's gui.transcriber: the cached model or None
    run_model_variant,  \* variant of the model the latest run works with, or None
    run_target_language,\* settings 'target_language' when the run started
    download_dir,       \* download_audio: TRUE iff download_path exists
    info_dict,          \* download_audio: what extract_info answered
    dl_pc,              \* download_audio: position of the call
    dl_outcomes,        \* download_audio: how every call ended, in call order
    torch,              \* Transcriber.__init__: what torch reports of the hardware
    device,             \* Transcriber.__init__: the local device
    load_model_calls,   \* every whisper.load_model call with how it ended
    self_device,        \* Transcriber: self.device, or None
    self_model,         \* Transcriber: device self.model was loaded on, or None
    init_pc,            \* Transcriber.__init__: position of the call
    target_path,        \* download_whisper_model: content of the cached file, or None
    source,             \* download_whisper_model: blocks the response still holds
    wm_pc,              \* download_whisper_model: position of the call
    wm_outcomes         \* download_whisper_model: how every call ended, in call order

vars == <<pc, chunk_length, duration, num_chunks, i, chunk_paths, ffmpeg_calls,
          language, progress_callback, stop_event, idx, transcripts,
          detected_language, model_calls, reports, returned, raised, stop_when,
          status, retries, attempt, target_language, dest, provider_calls,
          srt_content, entries, sorted_entries, files, run_stage,
          delete_temp_files, stop_button, download_button, file_button,
          model_variant, transcriber, run_model_variant, run_target_language,
          download_dir, info_dict, dl_pc, dl_outcomes, torch, device,
          load_model_calls, self_device, self_model, init_pc, target_path,
          source, wm_pc, wm_outcomes>>

splitVars == <<duration, num_chunks, i, ffmpeg_calls>>
transcribeVars == <<language, idx, transcripts, detected_language, model_calls>>
translateVars == <<retries, attempt, target_language, dest, provider_calls>>
guiVars == <<status>>
srtVars == <<srt_content, entries, sorted_entries>>
runVars == <<files, run_stage, delete_temp_files>>
taskVars == <<stop_button, download_button, file_button>>
settingsVars == <<model_variant, transcriber, run_model_variant,
                  run_target_language>>
downloadVars == <<download_dir, info_dict, dl_pc, dl_outcomes>>
constructVars == <<torch, device, load_model_calls, self_device, self_model,
                   init_pc>>
whisperVars == <<target_path, source, wm_pc, wm_outcomes>>
hostVars == <<settingsVars, downloadVars, constructVars, whisperVars>>

\* The host's components at rest: what a specification that does not
\* exercise them starts from and never changes.
SettingsIdle ==
    /\ model_variant = "base"
    /\ transcriber = None
    /\ run_model_variant = None

DownloadIdle ==
    /\ download_dir = FALSE
    /\ info_dict = None
    /\ dl_pc = "idle"
    /\ dl_outcomes = <<>>

ConstructIdle ==
    /\ torch = [cuda |-> FALSE, has_mps |-> FALSE, mps_available |-> FALSE,
                mps_built |-> FALSE]
    /\ device = None
    /\ load_model_calls = <<>>
    /\ self_device = None
    /\ self_model = None
    /\ init_pc = "idle"

WhisperIdle ==
    /\ target_path = <<>>
    /\ source = <<>>
    /\ wm_pc = "idle"
    /\ wm_outcomes = <<>>

\* ------------------------------------------------------------ shared code
\* Mutant: the stop check is left out.
StopIgnored(ev) == FALSE

\* `if stop_event and stop_event.is_set()`
StopRequested(ev) == ev # "absent" /\ ev = "set"

\* The percent argument (n / total * 100) as the exact fraction num/den.
Percent(n, total) == [num |-> n * 100, den |-> total]

\* Mutant: the zero-based loop index is reported.
ProgressArgsZeroBased(n, total, stage) ==
    [percent |-> Percent(n - 1, total), current |-> n - 1, total |-> total,
     stage |-> stage]

\* The arguments of one progress_callback call.
ProgressArgs(n, total, stage) ==
    [percent |-> Percent(n, total), current |-> n, total |-> total, stage |-> stage]

\* `if progress_callback: progress_callback(...)`
Report(cb, log, n, total, stage) ==
    IF cb THEN Append(log, ProgressArgs(n, total, stage)) ELSE log

\* GUI thread: TranscribeMonkeyGUI.stop_process sets the shared event.
StopProcess ==
    /\ UNCHANGED <<taskVars, hostVars>>
    /\ UNCHANGED <<srtVars, runVars>>
    /\ stop_button = "normal"
    /\ stop_event = "clear"
    /\ pc # "done" \/ run_stage \notin {"none", "ended"}
    /\ stop_event' = "set"
    /\ status' = "Stopping..."
    /\ stop_when' = LET n == IF pc \in {"sp_probe", "sp_loop", "sp_call"}
                              THEN i ELSE idx
                    IN IF pc \in {"sp_call", "tr_call", "tl_primary", "tl_fallback"}
                       THEN n + 1 ELSE n
    /\ UNCHANGED <<pc, chunk_length, chunk_paths, progress_callback, reports,
                   returned, raised, splitVars, transcribeVars, translateVars>>

\* ------------------------------------------------- Transcriber.split_audio
\* Mutant: the chunk count rounded up instead of floor + 1.
NumChunksCeil(d, len) == (d + len - 1) \div len

\* int(duration // chunk_length) + 1
NumChunks(d, len) == (d \div len) + 1

\* The ss / t arguments of the ffmpeg.input call for chunk k, with the
\* end_time the loop computes next to them.
FfmpegArgs(k, len, d) ==
    [ss |-> k * len, t |-> len, end_time |-> Min((k + 1) * len, d)]

\* duration = self.get_audio_duration(audio_path); num_chunks = ...
SplitProbe ==
    /\ UNCHANGED <<taskVars, hostVars>>
    /\ UNCHANGED <<srtVars, runVars>>
    /\ UNCHANGED <<translateVars, guiVars>>
    /\ pc = "sp_probe"
    /\ \E ok \in BOOLEAN, d \in 0..MaxDuration :
         IF ok
         THEN /\ duration' = d
              /\ num_chunks' = NumChunks(d, chunk_length)
              /\ pc' = "sp_loop"
              /\ raised' = raised
         ELSE /\ raised' = <<[stage |-> "FFmpeg probe error", msg |-> "stderr"]>>
              /\ pc' = "done"
              /\ UNCHANGED <<duration, num_chunks>>
    /\ UNCHANGED <<chunk_length, i, chunk_paths, ffmpeg_calls, progress_callback,
                   stop_event, reports, returned, stop_when, transcribeVars>>

\* Mutant: a stop request is raised as an error instead of ending the loop.
SplitCheckStopRaises ==
    /\ UNCHANGED <<taskVars, hostVars>>
    /\ UNCHANGED <<srtVars, runVars>>
    /\ UNCHANGED <<translateVars, guiVars>>
    /\ pc = "sp_loop"
    /\ IF StopRequested(stop_event)
       THEN /\ raised' = <<[stage |-> "Cancelled", msg |-> "stop requested"]>>
            /\ pc' = "done"
            /\ returned' = returned
       ELSE /\ raised' = raised
            /\ IF i >= num_chunks
               THEN returned' = <<chunk_paths>> /\ pc' = "done"
               ELSE returned' = returned /\ pc' = "sp_call"
    /\ UNCHANGED <<chunk_length, chunk_paths, progress_callback, stop_event,
                   reports, stop_when, splitVars, transcribeVars>>

\* Loop head: range exhausted or stop requested -> return chunk_paths.
SplitCheck ==
    /\ UNCHANGED <<taskVars, hostVars>>
    /\ UNCHANGED <<srtVars, runVars>>
    /\ UNCHANGED <<translateVars, guiVars>>
    /\ pc = "sp_loop"
    /\ IF i >= num_chunks \/ StopRequested(stop_event)
       THEN /\ returned' = <<chunk_paths>>
            /\ pc' = "done"
       ELSE /\ pc' = "sp_call"
            /\ returned' = returned
    /\ UNCHANGED <<chunk_length, chunk_paths, progress_callback, stop_event,
                   reports, raised, stop_when, splitVars, transcribeVars>>

\* os.path.join(temp_dir, f"chunk_{i}.mp3"), as the name of the file on disk.
ChunkFile(k) == "chunk_" \o ToString(k) \o ".mp3"

\* Loop body: one ffmpeg run, then append + progress, or the ffmpeg.Error path.
SplitChunk ==
    /\ UNCHANGED <<taskVars, hostVars>>
    /\ UNCHANGED <<srtVars, run_stage, delete_temp_files>>
    /\ UNCHANGED <<translateVars, guiVars>>
    /\ pc = "sp_call"
    /\ \E ok \in BOOLEAN :
         /\ ffmpeg_calls' = Append(ffmpeg_calls,
                LET a == FfmpegArgs(i, chunk_length, duration)
                IN [ss |-> a.ss, t |-> a.t, end_time |-> a.end_time, ok |-> ok])
         /\ IF ok
            THEN /\ files' = files \union {ChunkFile(i)}
                 /\ chunk_paths' = Append(chunk_paths, i)
                 /\ reports' = Report(progress_callback, reports, i + 1,
                                      num_chunks, "Chunk Creation")
                 /\ i' = i + 1
                 /\ pc' = "sp_loop"
                 /\ raised' = raised
            ELSE /\ raised' = <<[stage |-> "FFmpeg error during chunk extraction",
                                 msg |-> "stderr"]>>
                 /\ pc' = "done"
                 /\ UNCHANGED <<files, chunk_paths, reports, i>>
    /\ UNCHANGED <<chunk_length, duration, num_chunks, progress_callback,
                   stop_event, returned, stop_when, transcribeVars>>

InitSplit ==
    /\ SettingsIdle /\ DownloadIdle /\ ConstructIdle /\ WhisperIdle
    /\ run_target_language = None
    /\ stop_button = "normal"
    /\ download_button = "disabled"
    /\ file_button = "disabled"
    /\ pc = "sp_probe"
    /\ chunk_length \in 1..MaxChunkLength
    /\ duration = 0
    /\ num_chunks = 0
    /\ i = 0
    /\ chunk_paths = <<>>
    /\ ffmpeg_calls = <<>>
    /\ language = None
    /\ progress_callback \in BOOLEAN
    /\ stop_event \in {"absent", "clear", "set"}
    /\ idx = 0
    /\ transcripts = <<>>
    /\ detected_language = None
    /\ model_calls = <<>>
    /\ reports = <<>>
    /\ returned = <<>>
    /\ raised = <<>>
    /\ stop_when = IF stop_event = "set" THEN 0 ELSE -1
    /\ status = ""
    /\ retries = 0
    /\ attempt = 0
    /\ target_language = "en"
    /\ dest = None
    /\ provider_calls = <<>>
    /\ files = {}
    /\ run_stage = "none"
    /\ delete_temp_files = TRUE
    /\ entries = <<>>
    /\ sorted_entries = <<>>
    /\ srt_content = <<>>

NextSplit == SplitProbe \/ SplitCheck \/ SplitChunk \/ StopProcess

SpecSplit == InitSplit /\ [][NextSplit]_vars

\* ------------------------------------------- Transcriber.transcribe_chunks
\* A local-time segment as Whisper returns it; the text is the word uttered
\* at that second of the chunk.
Words == <<"a", "b", "c", "d", "e", "f">>
Seg(s, e) == [start |-> s, end |-> e, text |-> Words[s + 1]]

\* The segment lists the recognizer may return for one chunk of `len` seconds:
\* one-second utterances at strictly ascending local starts inside the chunk.
RECURSIVE SegLists(_, _)
SegLists(from, len) ==
    IF from >= len THEN {<<>>}
    ELSE SegLists(from + 1, len)
         \cup {<<Seg(from, from + 1)>> \o rest : rest \in SegLists(from + 1, len)}

\* The dicts model.transcribe may return: 'segments' and 'language' are each
\* present or missing, and 'language' may be present with the value None.
Results(len) ==
    {[segments |-> s, language |-> l] : s \in SegLists(0, len), l \in Langs \cup {None}}
    \cup {[segments |-> s] : s \in SegLists(0, len)}
    \cup {[language |-> l] : l \in Langs}

\* The exceptions model.transcribe may raise, by message.
LoadAudioError == "Failed to load audio: chunk"
EngineError == "CUDA out of memory"
Errors == {LoadAudioError, EngineError}

\* `"Failed to load audio" in msg`
MentionsLoadAudio(msg) == msg = LoadAudioError

\* The except branch: the message of the exception re-raised to the caller.
TranscriptionError(msg) ==
    [stage |-> "Whisper transcription error",
     msg |-> IF MentionsLoadAudio(msg)
             THEN "Failed to load audio. The file may use an unsupported codec or be corrupted."
             ELSE msg]

\* Mutant: only the first segment of a chunk is appended.
ExtendFirstOnly(ts, result) ==
    LET segments == Get(result, "segments", <<>>)
    IN IF segments = <<>> THEN ts ELSE Append(ts, Head(segments))

\* segments = result.get('segments', []); transcripts.extend(segments)
Extend(ts, result) == ts \o Get(result, "segments", <<>>)

\* Mutant: detection runs whether or not a hint was given.
DetectLanguageIgnoringHint(lang, detected, result) ==
    IF ~Truthy(detected) THEN Get(result, "language", Unknown) ELSE detected

\* if language is None and not detected_language:
\*     detected_language = result.get('language', 'unknown')
DetectLanguage(lang, detected, result) ==
    IF lang = None /\ ~Truthy(detected)
    THEN Get(result, "language", Unknown)
    ELSE detected

\* Loop head: list exhausted or stop requested -> return (transcripts, detected).
TranscribeCheck ==
    /\ UNCHANGED <<taskVars, hostVars>>
    /\ UNCHANGED <<srtVars, runVars>>
    /\ UNCHANGED <<translateVars, guiVars>>
    /\ pc = "tr_loop"
    /\ IF idx >= Len(chunk_paths) \/ StopRequested(stop_event)
       THEN /\ returned' = <<[transcripts |-> transcripts,
                              detected_language |-> detected_language]>>
            /\ pc' = "done"
       ELSE /\ pc' = "tr_call"
            /\ returned' = returned
    /\ UNCHANGED <<chunk_length, chunk_paths, progress_callback, stop_event,
                   reports, raised, stop_when, splitVars, transcribeVars>>

\* Loop body, the recognizer answering: extend, detect, report.
TranscribeChunk ==
    /\ UNCHANGED <<taskVars, hostVars>>
    /\ UNCHANGED <<srtVars, runVars>>
    /\ UNCHANGED <<translateVars, guiVars>>
    /\ pc = "tr_call"
    /\ \E result \in Results(chunk_length) :
         /\ model_calls' = Append(model_calls,
                [chunk |-> chunk_paths[idx + 1], language |-> language,
                 ok |-> TRUE, result |-> result])
         /\ transcripts' = Extend(transcripts, result)
         /\ detected_language' = DetectLanguage(language, detected_language, result)
    /\ reports' = Report(progress_callback, reports, idx + 1, Len(chunk_paths),
                         "Transcription")
    /\ idx' = idx + 1
    /\ pc' = "tr_loop"
    /\ UNCHANGED <<chunk_length, chunk_paths, language, progress_callback,
                   stop_event, returned, raised, stop_when, splitVars>>

\* Mutant: the failed chunk is logged and skipped, the loop goes on.
TranscribeChunkFailsSkipped ==
    /\ UNCHANGED <<taskVars, hostVars>>
    /\ UNCHANGED <<srtVars, runVars>>
    /\ UNCHANGED <<translateVars, guiVars>>
    /\ pc = "tr_call"
    /\ \E msg \in Errors :
         model_calls' = Append(model_calls,
                [chunk |-> chunk_paths[idx + 1], language |-> language,
                 ok |-> FALSE, result |-> [error |-> msg]])
    /\ idx' = idx + 1
    /\ pc' = "tr_loop"
    /\ UNCHANGED <<chunk_length, chunk_paths, language, progress_callback,
                   stop_event, reports, returned, raised, stop_when, splitVars,
                   transcripts, detected_language>>

\* Loop body, the recognizer raising: log, rewrite the message, re-raise.
TranscribeChunkFails ==
    /\ UNCHANGED <<taskVars, hostVars>>
    /\ UNCHANGED <<srtVars, runVars>>
    /\ UNCHANGED <<translateVars, guiVars>>
    /\ pc = "tr_call"
    /\ \E msg \in Errors :
         /\ model_calls' = Append(model_calls,
                [chunk |-> chunk_paths[idx + 1], language |-> language,
                 ok |-> FALSE, result |-> [error |-> msg]])
         /\ raised' = <<TranscriptionError(msg)>>
    /\ pc' = "done"
    /\ UNCHANGED <<chunk_length, chunk_paths, language, progress_callback,
                   stop_event, reports, returned, stop_when, splitVars,
                   idx, transcripts, detected_language>>

InitTranscribe ==
    /\ SettingsIdle /\ DownloadIdle /\ ConstructIdle /\ WhisperIdle
    /\ run_target_language = None
    /\ stop_button = "normal"
    /\ download_button = "disabled"
    /\ file_button = "disabled"
    /\ pc = "tr_loop"
    /\ chunk_length \in 1..MaxChunkLength
    /\ duration = 0
    /\ num_chunks = 0
    /\ i = 0
    /\ chunk_paths \in {[k \in 1..n |-> k - 1] : n \in 0..MaxChunks}
    /\ ffmpeg_calls = <<>>
    /\ language \in {None, "de"}
    /\ progress_callback \in BOOLEAN
    /\ stop_event \in {"absent", "clear", "set"}
    /\ idx = 0
    /\ transcripts = <<>>
    /\ detected_language = None
    /\ model_calls = <<>>
    /\ reports = <<>>
    /\ returned = <<>>
    /\ raised = <<>>
    /\ stop_when = IF stop_event = "set" THEN 0 ELSE -1
    /\ status = ""
    /\ retries = 0
    /\ attempt = 0
    /\ target_language = "en"
    /\ dest = None
    /\ provider_calls = <<>>
    /\ files = {}
    /\ run_stage = "none"
    /\ delete_temp_files = TRUE
    /\ entries = <<>>
    /\ sorted_entries = <<>>
    /\ srt_content = <<>>

NextTranscribe ==
    TranscribeCheck \/ TranscribeChunk \/ TranscribeChunkFails \/ StopProcess

SpecTranscribe == InitTranscribe /\ [][NextTranscribe]_vars

\* ------------------------------------------ Translator.translate_text and
\* ---------------- the translation loop of TranscribeMonkeyGUI.transcribe_audio
MaxSegments == 3        \* transcripts of 0..MaxSegments segments
MaxRetries == 3         \* Translator(retries=...) in 0..MaxRetries

\* The transcripts handed to the translation loop: n one-second segments.
SegmentsToTranslate(n) == [k \in 1..n |-> [start |-> k - 1, end |-> k, text |-> Words[k]]]

\* What the providers answer when they do not fail.
PrimaryOutput(text, d) == "google:" \o d \o ":" \o text
FallbackOutput(text, d) == "mymemory:" \o d \o ":" \o text

\* Mutant: the stop event is not looked at between segments.
StopSetNever(ev) == FALSE

\* `if self.stop_event.is_set()`
StopSet(ev) == ev = "set"

\* Mutant: one attempt fewer, range(1, self.retries).
AttemptsLeftShort(n, max) == n < max

\* `for attempt in range(1, self.retries + 1)`: attempt n is still in range.
AttemptsLeft(n, max) == n <= max

\* Mutant: the destination language is not passed on.
PrimaryCallDefaultDest(text, d) == [provider |-> "google", text |-> text, dest |-> "en"]

\* self.translator.translate(text, dest=target_language)
PrimaryCall(text, d) == [provider |-> "google", text |-> text, dest |-> d]

\* MyMemoryTranslator(source="auto", target=target_language).translate(text)
FallbackCall(text, d) == [provider |-> "mymemory", text |-> text, dest |-> d]

\* Mutant: nothing is returned when the fallback fails too.
PassThroughNone(text) == None

\* `return text` of the last except branch.
PassThrough(text) == text

\* A provider call as logged: the call, its outcome, the segment it is for and
\* the number of progress reports emitted before it.
Logged(call, ok) ==
    [provider |-> call.provider, text |-> call.text, dest |-> call.dest,
     ok |-> ok, seg |-> idx, reported |-> Len(reports)]

\* segment['translated_text'] = ...
WithTranslated(segment, result) ==
    [start |-> segment.start, end |-> segment.end, text |-> segment.text,
     translated_text |-> result]

\* Mutant: the report names the transcription stage.
ReportTranslationAsTranscription(log, n, total) ==
    Append(log, ProgressArgs(n, total, "Transcription"))

\* self.update_transcription_progress((idx + 1) / len(transcripts) * 100, ...)
ReportTranslation(log, n, total) ==
    Append(log, ProgressArgs(n, total, "Translation"))

\* translate_text returning `result` to the loop: store it, report, next segment.
SegmentTranslated(result) ==
    /\ transcripts' = [transcripts EXCEPT ![idx + 1] = WithTranslated(@, result)]
    /\ reports' = ReportTranslation(reports, idx + 1, Len(transcripts))
    /\ idx' = idx + 1
    /\ pc' = "tl_loop"

\* Loop head of the translation loop: end of list, stop, or call translate_text.
TranslateCheck ==
    /\ UNCHANGED <<taskVars, hostVars>>
    /\ UNCHANGED <<srtVars, runVars>>
    /\ pc = "tl_loop"
    /\ IF idx >= Len(transcripts)
       THEN /\ pc' = "format"
            /\ UNCHANGED <<status, attempt, dest>>
       ELSE IF StopSet(stop_event)
       THEN /\ status' = "Process stopped."
            /\ pc' = "done"
            /\ UNCHANGED <<attempt, dest>>
       ELSE /\ dest' = target_language
            /\ attempt' = 1
            /\ pc' = IF AttemptsLeft(1, retries) THEN "tl_primary" ELSE "tl_fallback"
            /\ status' = status
    /\ UNCHANGED <<chunk_length, chunk_paths, progress_callback, stop_event,
                   reports, returned, raised, stop_when, splitVars, transcribeVars,
                   retries, target_language, provider_calls>>

\* One attempt of the primary provider: return its text, or log, sleep, go on.
PrimaryAttempt ==
    /\ UNCHANGED <<taskVars, hostVars>>
    /\ UNCHANGED <<srtVars, runVars>>
    /\ pc = "tl_primary"
    /\ \E ok \in BOOLEAN :
         /\ provider_calls' = Append(provider_calls,
                Logged(PrimaryCall(transcripts[idx + 1].text, dest), ok))
         /\ IF ok
            THEN /\ SegmentTranslated(PrimaryOutput(transcripts[idx + 1].text, dest))
                 /\ attempt' = attempt
            ELSE /\ attempt' = attempt + 1
                 /\ pc' = IF AttemptsLeft(attempt + 1, retries)
                          THEN "tl_primary" ELSE "tl_fallback"
                 /\ UNCHANGED <<transcripts, reports, idx>>
    /\ UNCHANGED <<chunk_length, chunk_paths, progress_callback, stop_event,
                   returned, raised, stop_when, splitVars, language,
                   detected_language, model_calls, status, retries,
                   target_language, dest>>

\* The fallback provider: return its text, or the original text if it fails.
FallbackAttempt ==
    /\ UNCHANGED <<taskVars, hostVars>>
    /\ UNCHANGED <<srtVars, runVars>>
    /\ pc = "tl_fallback"
    /\ \E ok \in BOOLEAN :
         /\ provider_calls' = Append(provider_calls,
                Logged(FallbackCall(transcripts[idx + 1].text, dest), ok))
         /\ SegmentTranslated(IF ok
                              THEN FallbackOutput(transcripts[idx + 1].text, dest)
                              ELSE PassThrough(transcripts[idx + 1].text))
    /\ UNCHANGED <<chunk_length, chunk_paths, progress_callback, stop_event,
                   returned, raised, stop_when, splitVars, language,
                   detected_language, model_calls, status, retries, attempt,
                   target_language, dest>>

InitTranslate ==
    /\ SettingsIdle /\ DownloadIdle /\ ConstructIdle /\ WhisperIdle
    /\ stop_button = "normal"
    /\ download_button = "disabled"
    /\ file_button = "disabled"
    /\ pc = "tl_loop"
    /\ chunk_length = 1
    /\ duration = 0
    /\ num_chunks = 0
    /\ i = 0
    /\ chunk_paths = <<>>
    /\ ffmpeg_calls = <<>>
    /\ language = None
    /\ progress_callback = TRUE
    /\ stop_event \in {"clear", "set"}
    /\ idx = 0
    /\ transcripts \in {SegmentsToTranslate(n) : n \in 0..MaxSegments}
    /\ detected_language = None
    /\ model_calls = <<>>
    /\ reports = <<>>
    /\ returned = <<>>
    /\ raised = <<>>
    /\ stop_when = IF stop_event = "set" THEN 0 ELSE -1
    /\ status = ""
    /\ retries \in 0..MaxRetries
    /\ attempt = 0
    /\ target_language \in {"es", "de"}
    /\ run_target_language = target_language
    /\ dest = None
    /\ provider_calls = <<>>
    /\ files = {}
    /\ run_stage = "none"
    /\ delete_temp_files = TRUE
    /\ entries = <<>>
    /\ sorted_entries = <<>>
    /\ srt_content = <<>>

NextTranslate == TranslateCheck \/ PrimaryAttempt \/ FallbackAttempt \/ StopProcess

SpecTranslate == InitTranslate /\ [][NextTranslate]_vars

\* ------------------------------------------- gui.py: the settings window
\* open_settings.save_local_settings (gui.py): the Save Settings button.
\* It assigns into self.settings, the very dict a running worker thread
\* reads, and no button state guards it: it can run at any moment.
save_local_settings ==
    /\ \E cl \in 1..MaxChunkLength, mv \in {"base", "small"}, dt \in BOOLEAN,
          tl \in {"es", "de"} :
          /\ chunk_length' = cl
          /\ model_variant' = mv
          /\ delete_temp_files' = dt
          /\ target_language' = tl
    /\ UNCHANGED <<pc, chunk_paths, progress_callback, stop_event, reports,
                   returned, raised, stop_when, splitVars, transcribeVars,
                   retries, attempt, dest, provider_calls, guiVars, srtVars,
                   files, run_stage, taskVars, transcriber, run_model_variant,
                   run_target_language, downloadVars, constructVars,
                   whisperVars>>

SpecTranslateSaved ==
    InitTranslate /\ [][NextTranslate
                         \/ save_local_settings]_vars

\* ================================================================ claims
\* ------------------------------------------------ processor/srt_formatter.py
\* correct_srt_format, parse_srt and format_srt.  A time string
\* "HH:MM:SS,mmm" is the number of milliseconds it denotes, so "00:00:01,000"
\* is 1000.  A document is the sequence of its lines, each ended by "\n": a
\* time code line "<start> --> <end>" is the record of its two time strings,
\* any other line the record of its characters.

MaxEntries == 3         \* documents of 0..MaxEntries blocks

Line(s) == [s |-> s]
TimecodeLine(start, end) == [start |-> start, end |-> end]
Blank == Line("")

\* The time strings of the input documents: "00:00:00,000", "00:00:00,009",
\* "00:00:00,010" and "00:00:01,000".
Stamps == {0, 9, 10, 1000}

\* The index lines of an input document of n blocks: 1..n in order, in
\* reverse order, or the same number on every block.
IndexLines(n) ==
    {[j \in 1..n |-> j], [j \in 1..n |-> n + 1 - j], [j \in 1..n |-> 7]}

\* The time codes of an input document of n blocks.
TimeCodes(n) == [1..n -> Stamps \X Stamps]

\* The text lines of the blocks: the j-th word in block j.
PlainText(n) == [j \in 1..n |-> <<Words[j]>>]

\* The same with two text lines in the first block, with no text in the
\* last block, with no text in the first block.
TextLines(n) ==
    {PlainText(n),
     [j \in 1..n |-> IF j = 1 THEN <<Words[j], "second line">> ELSE <<Words[j]>>],
     [j \in 1..n |-> IF j = n THEN <<>> ELSE <<Words[j]>>],
     [j \in 1..n |-> IF j = 1 THEN <<>> ELSE <<Words[j]>>]}

\* How the blocks of an input document are filled in: any index lines over
\* plain text, or indices 1..n over any of the text layouts.
Layouts(n) ==
    {[ix |-> f, text |-> PlainText(n)] : f \in IndexLines(n)}
    \cup {[ix |-> [j \in 1..n |-> j], text |-> g] : g \in TextLines(n)}

\* One block: index line, time code line, text lines, blank line.  A block
\* without text has an empty line where the text would be.
Block(index, timecode, text) ==
    <<Line(ToString(index)), TimecodeLine(timecode[1], timecode[2])>>
    \o [k \in 1..Len(text) |-> Line(text[k])]
    \o (IF text = <<>> THEN <<Blank>> ELSE <<>>)
    \o <<Blank>>

RECURSIVE Document(_, _, _)
Document(n, layout, t) ==
    IF n = 0 THEN <<>>
    ELSE Document(n - 1, layout, t) \o Block(layout.ix[n], t[n], layout.text[n])

\* A document with no time code line at all.
RECURSIVE Garbled(_)
Garbled(n) ==
    IF n = 0 THEN <<>>
    ELSE Garbled(n - 1) \o <<Line(ToString(n)), Line(Words[n]), Blank>>

\* ---- parse_srt: the pattern, line by line
IsTimecode(line) == "start" \in DOMAIN line

\* \s+ runs over a line of no characters.
IsBlank(line) == ~IsTimecode(line) /\ line.s = ""

\* The numbers an index line may hold.
IndexNumbers == 0..9

\* (\d+) followed by whitespace: a line of digits.
IsDigits(line) ==
    ~IsTimecode(line) /\ line.s \in {ToString(n) : n \in IndexNumbers}

\* int(match.group(1))
IntOf(s) == CHOOSE n \in IndexNumbers : ToString(n) = s

\* The first line from p on that \s+ does not run over (Len + 1: none).
RECURSIVE SkipWhitespace(_, _)
SkipWhitespace(doc, p) ==
    IF p <= Len(doc) /\ IsBlank(doc[p]) THEN SkipWhitespace(doc, p + 1) ELSE p

\* The pattern matches with (\d+) on line p: digits, whitespace, a time code
\* line and the "\n" that ends it.
MatchesAt(doc, p) ==
    /\ IsDigits(doc[p])
    /\ LET q == SkipWhitespace(doc, p + 1)
       IN q <= Len(doc) /\ IsTimecode(doc[q])

\* Group 4, ([\s\S]*?)(?=\n\d+\s+...-->|$) under re.MULTILINE, stripped: the
\* lazy group stops at the first end of line, so it holds the first line
\* that follows the whitespace after the time code, or nothing at the end of
\* the document.
MatchedText(doc, r) ==
    IF r > Len(doc) THEN ""
    ELSE CASE ~IsTimecode(doc[r]) -> doc[r].s

\* pattern.finditer from line p on: the entries, in document order.
RECURSIVE FindIter(_, _)
FindIter(doc, p) ==
    IF p > Len(doc) THEN <<>>
    ELSE IF MatchesAt(doc, p)
    THEN LET q == SkipWhitespace(doc, p + 1)
             r == SkipWhitespace(doc, q + 1)
         IN <<[index |-> IntOf(doc[p].s), start |-> doc[q].start,
               end |-> doc[q].end, text |-> MatchedText(doc, r)]>>
            \o FindIter(doc, r + 1)
    ELSE FindIter(doc, p + 1)

parse_srt(content) == FindIter(content, 1)

\* A float of seconds is kept as the expression that produced it: the time
\* string it was converted from and the constants added to it since.  What
\* the double arithmetic makes of such an expression was measured by running
\* the functions on every time string a document of the sizes modelled can
\* hold (Measured); a value outside that set has no defined result here.
Measured ==
    {0, 1, 2, 3, 4, 5, 6, 9, 10, 11, 12, 13, 14, 15, 16, 1000, 2000, 2001,
     2003, 2004, 2005, 2009, 2011, 2012, 2013, 2015, 2016, 3000, 4000, 4001,
     4003, 4004, 4009, 4011, 4012, 4014, 4016, 5000, 5001, 6001, 6003, 6004,
     6009, 6011, 6012, 6014, 7001, 8002, 8003, 8009, 8012, 9002, 9003,
     10003, 10009, 10012, 11003, 12003, 12009, 12012, 13003, 14003, 15003,
     16004, 17004}

\* t with int(((t/1000 + 0.001) - whole seconds) * 1000) one millisecond
\* short: seconds_to_time(time_to_seconds(t) + 0.001) is t itself.
StartTruncated ==
    {1000, 2000, 2001, 2004, 2005, 2009, 2012, 2013, 2016, 3000, 4001, 4003,
     4004, 4009, 4011, 4012, 4014, 5001, 6001, 6003, 6004, 6009, 6011, 6012,
     6014, 7001, 8003, 8009, 8012, 9003, 10003, 10009, 10012, 11003, 12003,
     12009, 12012, 13003, 14003, 15003, 16004, 17004}

\* t with seconds_to_time(time_to_seconds(t) + 0.001 + 2) two seconds after
\* t, the added millisecond lost.
EndTruncated ==
    {0, 1, 4, 5, 9, 12, 13, 16, 1000, 2001, 2003, 2004, 2009, 2011, 2012,
     4001, 4003, 4004, 4009, 4011, 4012, 4014, 5001, 6003, 6009, 6012, 8003,
     8009, 8012, 9003, 10003, 10009, 10012, 11003, 12003, 12009, 12012,
     13003, 16004, 17004}

\* t with the double t/1000 + 0.001 below the double (t+1)/1000.
SumBelowNext == {9, 13}

time_to_seconds(time_str) == [of |-> time_str, plus |-> <<>>]

Plus(seconds, c) == [seconds EXCEPT !.plus = Append(@, c)]

seconds_to_time(seconds) ==
    CASE seconds.plus = <<"0.001">> /\ seconds.of \in Measured ->
            IF seconds.of \in StartTruncated
            THEN seconds.of ELSE seconds.of + 1
      [] seconds.plus = <<"0.001", "2">> /\ seconds.of \in Measured ->
            IF seconds.of \in EndTruncated
            THEN seconds.of + 2000 ELSE seconds.of + 2001

\* a < b for two converted time strings: the conversion is strictly monotone.
Less(a, b) ==
    CASE a.plus = <<>> /\ b.plus = <<>> -> a.of < b.of

\* a <= b for a converted time string a and b = (a converted one) + 0.001.
LessEq(a, b) ==
    CASE a.plus = <<>> /\ b.plus = <<"0.001">> /\ a.of <= b.of -> TRUE
      [] a.plus = <<>> /\ b.plus = <<"0.001">> /\ a.of >= b.of + 2 -> FALSE
      [] a.plus = <<>> /\ b.plus = <<"0.001">> /\ a.of = b.of + 1
            /\ b.of \in Measured -> b.of \notin SumBelowNext

\* sorted(entries, key=lambda x: time_to_seconds(x['start'])): stable.
\* Mutant: no sort, the entry goes to the end of the list.
InsertAtEnd(es, x) == Append(es, x)
RECURSIVE InsertByStart(_, _)
InsertByStart(es, x) ==
    IF es = <<>> THEN <<x>>
    ELSE IF Less(time_to_seconds(x.start), time_to_seconds(Head(es).start))
    THEN <<x>> \o es
    ELSE <<Head(es)>> \o InsertByStart(Tail(es), x)

RECURSIVE sorted(_)
sorted(es) ==
    IF es = <<>> THEN <<>>
    ELSE InsertByStart(sorted(SubSeq(es, 1, Len(es) - 1)), es[Len(es)])

\* prev_end of the loop body: the end the predecessor has now.
PrevEndBeforeRepair(es, k) == time_to_seconds(sorted(entries)[k].end)
PrevEnd(es, k) == time_to_seconds(es[k].end)

\* The end of the entry being repaired, given its new start.
RepairedEnd(current, new_start) ==
    IF LessEq(time_to_seconds(current.end), new_start)
    THEN seconds_to_time(Plus(new_start, "2"))
    ELSE current.end

\* Mutant: an overlap is repaired by cutting the predecessor's end back to
\* the start of the entry.
RepairAtTrimsPredecessor(es, k) ==
    IF Less(time_to_seconds(es[k + 1].start), time_to_seconds(es[k].end))
    THEN [es EXCEPT ![k] = [es[k] EXCEPT !.end = es[k + 1].start]]
    ELSE es

\* The body of the repair loop for the python index k (entry k+1 here).
RepairAt(es, k) ==
    LET prev_end == PrevEnd(es, k)
        current == es[k + 1]
        current_start == time_to_seconds(current.start)
        new_start == Plus(prev_end, "0.001")
    IN IF Less(current_start, prev_end)
       THEN [es EXCEPT ![k + 1] =
                [current EXCEPT !.start = seconds_to_time(new_start),
                                !.end = RepairedEnd(current, new_start)]]
       ELSE es

\* Mutant: the indices the entries came with are kept.
RenumberKept(es) == es
\* enumerate(sorted_entries, start=1): entry['index'] = idx.
Renumber(es) == [k \in 1..Len(es) |-> [es[k] EXCEPT !.index = k]]

\* srt_content += f"{index}\n{start} --> {end}\n{text}\n\n" for each entry.
RECURSIVE Serialize(_)
Serialize(es) ==
    IF es = <<>> THEN <<>>
    ELSE <<Line(ToString(Head(es).index)),
           TimecodeLine(Head(es).start, Head(es).end),
           Line(Head(es).text), Blank>> \o Serialize(Tail(es))

\* The repair loop from the python index k to the end of the list.
RECURSIVE RepairFrom(_, _)
RepairFrom(es, k) ==
    IF k >= Len(es) THEN es ELSE RepairFrom(RepairAt(es, k), k + 1)

\* format_srt as a function of the entries it is given.
format_srt(es) == Serialize(Renumber(RepairFrom(sorted(es), 1)))

ValueError == "ValueError: No valid SRT entries found."

\* correct_srt_format: entries = parse_srt(srt_content).
CorrectParse ==
    /\ UNCHANGED <<taskVars, hostVars>>
    /\ UNCHANGED runVars
    /\ pc = "cs_parse"
    /\ entries' = parse_srt(srt_content)
    /\ pc' = "cs_parsed"
    /\ UNCHANGED <<chunk_length, chunk_paths, progress_callback, stop_event,
                   reports, returned, raised, stop_when, splitVars,
                   transcribeVars, translateVars, guiVars, srt_content,
                   sorted_entries>>

\* correct_srt_format after parse_srt returned: no entries is an error.
CorrectCheck ==
    /\ UNCHANGED <<taskVars, hostVars>>
    /\ UNCHANGED runVars
    /\ pc = "cs_parsed"
    /\ IF entries = <<>>
       THEN /\ raised' = <<ValueError>>
            /\ pc' = "done"
       ELSE /\ raised' = raised
            /\ pc' = "fs_sort"
    /\ UNCHANGED <<chunk_length, chunk_paths, progress_callback, stop_event,
                   reports, returned, stop_when, splitVars, transcribeVars,
                   translateVars, guiVars, srtVars>>

\* format_srt: the sort.
FormatSort ==
    /\ UNCHANGED <<taskVars, hostVars>>
    /\ UNCHANGED runVars
    /\ pc = "fs_sort"
    /\ sorted_entries' = sorted(entries)
    /\ i' = 1
    /\ pc' = "fs_repair"
    /\ UNCHANGED <<chunk_length, chunk_paths, progress_callback, stop_event,
                   reports, returned, raised, stop_when, duration, num_chunks,
                   ffmpeg_calls, transcribeVars, translateVars, guiVars,
                   srt_content,
                   entries>>

\* format_srt: one iteration of the repair loop.
FormatRepair ==
    /\ UNCHANGED <<taskVars, hostVars>>
    /\ UNCHANGED runVars
    /\ pc = "fs_repair"
    /\ i < Len(sorted_entries)
    /\ sorted_entries' = RepairAt(sorted_entries, i)
    /\ i' = i + 1
    /\ UNCHANGED <<pc, chunk_length, chunk_paths, progress_callback,
                   stop_event, reports, returned, raised, stop_when, duration,
                   num_chunks, ffmpeg_calls, transcribeVars, translateVars,
                   guiVars, srt_content,
                   entries>>

\* format_srt: renumber, build the document, return it.
FormatFinish ==
    /\ UNCHANGED <<taskVars, hostVars>>
    /\ UNCHANGED runVars
    /\ pc = "fs_repair"
    /\ i >= Len(sorted_entries)
    /\ sorted_entries' = Renumber(sorted_entries)
    /\ returned' = <<Serialize(Renumber(sorted_entries))>>
    /\ pc' = "done"
    /\ UNCHANGED <<chunk_length, chunk_paths, progress_callback, stop_event,
                   reports, raised, stop_when, splitVars, transcribeVars,
                   translateVars, guiVars, srt_content,
                   entries>>

InitCorrect ==
    /\ SettingsIdle /\ DownloadIdle /\ ConstructIdle /\ WhisperIdle
    /\ run_target_language = None
    /\ stop_button = "normal"
    /\ download_button = "disabled"
    /\ file_button = "disabled"
    /\ pc = "cs_parse"
    /\ chunk_length = 1
    /\ duration = 0
    /\ num_chunks = 0
    /\ i = 0
    /\ chunk_paths = <<>>
    /\ ffmpeg_calls = <<>>
    /\ language = None
    /\ progress_callback = TRUE
    /\ stop_event = "clear"
    /\ idx = 0
    /\ transcripts = <<>>
    /\ detected_language = None
    /\ model_calls = <<>>
    /\ reports = <<>>
    /\ returned = <<>>
    /\ raised = <<>>
    /\ stop_when = -1
    /\ status = ""
    /\ retries = 0
    /\ attempt = 0
    /\ target_language = "en"
    /\ dest = None
    /\ provider_calls = <<>>
    /\ files = {}
    /\ run_stage = "none"
    /\ delete_temp_files = TRUE
    /\ \/ \E n \in 0..MaxEntries : \E layout \in Layouts(n), t \in TimeCodes(n) :
            srt_content = Document(n, layout, t)
       \/ \E n \in 1..MaxEntries : srt_content = Garbled(n)
    /\ entries = <<>>
    /\ sorted_entries = <<>>

NextCorrect ==
    CorrectParse \/ CorrectCheck \/ FormatSort \/ FormatRepair \/ FormatFinish

SpecCorrect == InitCorrect /\ [][NextCorrect]_vars

\* ------------------------------------ TranscribeMonkeyGUI.transcribe_audio
\* One run of the pipeline on an audio file, with settings 'translate' off
\* (its default), so translator is None and the translation loop is skipped.
\* The run calls split_audio and transcribe_chunks, modelled above, and goes
\* on from what they return or raise.

\* The call of split_audio, on audio of at most MaxChunks chunks.
RunProbe == SplitProbe /\ num_chunks' <= MaxChunks

\* split_audio returned: pick the language, call transcribe_chunks.
RunStartTranscription ==
    /\ UNCHANGED <<taskVars, hostVars>>
    /\ run_stage = "split"
    /\ pc = "done"
    /\ returned # <<>>
    /\ chunk_paths' = returned[1]
    /\ idx' = 0
    /\ transcripts' = <<>>
    /\ detected_language' = None
    /\ returned' = <<>>
    /\ status' = "Starting transcription..."
    /\ pc' = "tr_loop"
    /\ run_stage' = "transcribe"
    /\ UNCHANGED <<chunk_length, progress_callback, stop_event, reports, raised,
                   stop_when, splitVars, language, model_calls, translateVars,
                   srtVars, files, delete_temp_files>>

\* transcribe_chunks returned: `if self.stop_event.is_set(): ... return`.
RunStopCheck ==
    /\ UNCHANGED <<taskVars, hostVars>>
    /\ run_stage = "transcribe"
    /\ pc = "done"
    /\ returned # <<>>
    /\ IF StopSet(stop_event)
       THEN /\ status' = "Process stopped."
            /\ run_stage' = "ended"
       ELSE /\ status' = status
            /\ run_stage' = "format"
    /\ UNCHANGED <<pc, chunk_length, chunk_paths, progress_callback, stop_event,
                   reports, returned, raised, stop_when, splitVars,
                   transcribeVars, translateVars, srtVars, files,
                   delete_temp_files>>

\* format_time on a whole number of seconds: "HH:MM:SS,000", kept as the
\* milliseconds it denotes.
format_time(seconds) == seconds * 1000

\* format_time writes the hours with at least two digits (`{hours:02}`), the
\* pattern of parse_srt reads exactly two (`\d{2}`): from a hundred hours on
\* the line written is not a time code line to parse_srt.
HundredHours == 360000
TwoDigitHours(time_str) == time_str < format_time(HundredHours)

SegmentTimecode(start, end) ==
    IF TwoDigitHours(start) /\ TwoDigitHours(end)
    THEN TimecodeLine(start, end)
    ELSE Line("<hhh:mm:ss,mmm --> hhh:mm:ss,mmm>")

\* str.strip on the texts a segment may carry: a word, a word between
\* spaces, or nothing but a space.
Padded == " padded "
strip(text) ==
    CASE text = " " -> ""
      [] text = Padded -> "padded"
      [] OTHER -> text

\* format_transcript: f"{srt_counter}\n{start} --> {end}\n{text}\n\n" for
\* each segment, the translated text when the segment has one.
RECURSIVE FormatSegments(_, _)
FormatSegments(segments, srt_counter) ==
    IF segments = <<>> THEN <<>>
    ELSE LET segment == Head(segments)
             start == format_time(segment.start)
             end == format_time(segment.end)
             text == strip(Get(segment, "translated_text", segment.text))
         IN <<Line(ToString(srt_counter)), SegmentTimecode(start, end),
              Line(text), Blank>>
            \o FormatSegments(Tail(segments), srt_counter + 1)

format_transcript(segments) == FormatSegments(segments, 1)

\* `srt_content = self.format_transcript(transcripts)` and the call of
\* correct_srt_format.
RunFormat ==
    /\ UNCHANGED <<taskVars, hostVars>>
    /\ run_stage = "format"
    /\ raised = <<>>
    /\ srt_content' = format_transcript(returned[1].transcripts)
    /\ entries' = <<>>
    /\ sorted_entries' = <<>>
    /\ returned' = <<>>
    /\ pc' = "cs_parse"
    /\ run_stage' = "correct"
    /\ UNCHANGED <<chunk_length, chunk_paths, progress_callback, stop_event,
                   reports, raised, stop_when, splitVars, transcribeVars,
                   translateVars, guiVars, files, delete_temp_files>>

SrtFormattingFailed == "SRT formatting failed: No valid SRT entries found."

\* Mutant: the error of correct_srt_format is swallowed and the document
\* as formatted goes on to be written.
RunCorrectedKeepsGoing ==
    /\ UNCHANGED <<taskVars, hostVars>>
    /\ run_stage = "correct"
    /\ pc = "done"
    /\ raised' = <<>>
    /\ returned' = IF raised # <<>> THEN <<srt_content>> ELSE returned
    /\ run_stage' = "write"
    /\ UNCHANGED <<pc, chunk_length, chunk_paths, progress_callback, stop_event,
                   reports, stop_when, splitVars, transcribeVars,
                   translateVars, guiVars, srtVars, files, delete_temp_files>>

\* correct_srt_format returned or raised:
\* `except Exception as e: raise Exception(f"SRT formatting failed: {e}")`.
RunCorrected ==
    /\ UNCHANGED <<taskVars, hostVars>>
    /\ run_stage = "correct"
    /\ pc = "done"
    /\ IF raised # <<>>
       THEN /\ raised' = <<SrtFormattingFailed>>
            /\ run_stage' = "failed"
       ELSE /\ raised' = raised
            /\ run_stage' = "write"
    /\ UNCHANGED <<pc, chunk_length, chunk_paths, progress_callback, stop_event,
                   reports, returned, stop_when, splitVars, transcribeVars,
                   translateVars, guiVars, srtVars, files, delete_temp_files>>

\* os.makedirs and open(output_path, 'w'): the file is written or OSError.
RunWrite ==
    /\ UNCHANGED <<taskVars, hostVars>>
    /\ run_stage = "write"
    /\ raised = <<>>
    /\ \E ok \in BOOLEAN :
         IF ok
         THEN /\ files' = files \union {"output"}
              /\ run_stage' = "cleanup"
              /\ raised' = raised
         ELSE /\ raised' = <<"OSError">>
              /\ UNCHANGED <<files, run_stage>>
    /\ UNCHANGED <<pc, chunk_length, chunk_paths, progress_callback, stop_event,
                   reports, returned, stop_when, splitVars, transcribeVars,
                   translateVars, guiVars, srtVars, delete_temp_files>>

\* `if self.settings.get('delete_temp_files', True): os.remove(audio_path)`,
\* then the success labels.
RunCleanup ==
    /\ UNCHANGED <<taskVars, hostVars>>
    /\ run_stage = "cleanup"
    /\ files' = IF delete_temp_files THEN files \ {"audio"} ELSE files
    /\ status' = "Transcription successful!"
    /\ run_stage' = "ended"
    /\ UNCHANGED <<pc, chunk_length, chunk_paths, progress_callback, stop_event,
                   reports, returned, raised, stop_when, splitVars,
                   transcribeVars, translateVars, srtVars, delete_temp_files>>

\* `except Exception as e:` of transcribe_audio.
RunFailed ==
    /\ UNCHANGED <<taskVars, hostVars>>
    /\ run_stage \in {"split", "transcribe", "format", "failed", "write", "cleanup"}
    /\ raised # <<>>
    /\ status' = IF StopSet(stop_event)
                 THEN "Process stopped." ELSE "Failed to transcribe audio."
    /\ run_stage' = "ended"
    /\ UNCHANGED <<pc, chunk_length, chunk_paths, progress_callback, stop_event,
                   reports, returned, raised, stop_when, splitVars,
                   transcribeVars, translateVars, srtVars, files,
                   delete_temp_files>>

InitRun ==
    /\ SettingsIdle /\ DownloadIdle /\ ConstructIdle /\ WhisperIdle
    /\ run_target_language = None
    /\ stop_button = "normal"
    /\ download_button = "disabled"
    /\ file_button = "disabled"
    /\ pc = "sp_probe"
    /\ chunk_length \in 1..MaxChunkLength
    /\ duration = 0
    /\ num_chunks = 0
    /\ i = 0
    /\ chunk_paths = <<>>
    /\ ffmpeg_calls = <<>>
    /\ language \in {None, "de"}
    /\ progress_callback = TRUE
    /\ stop_event = "clear"
    /\ idx = 0
    /\ transcripts = <<>>
    /\ detected_language = None
    /\ model_calls = <<>>
    /\ reports = <<>>
    /\ returned = <<>>
    /\ raised = <<>>
    /\ stop_when = -1
    /\ status = "Splitting audio into chunks..."
    /\ retries = 0
    /\ attempt = 0
    /\ target_language = "en"
    /\ dest = None
    /\ provider_calls = <<>>
    /\ entries = <<>>
    /\ sorted_entries = <<>>
    /\ srt_content = <<>>
    /\ files = {"audio"}
    /\ run_stage = "split"
    /\ delete_temp_files \in BOOLEAN

NextRun ==
    \/ RunProbe \/ SplitCheck \/ SplitChunk \/ RunStartTranscription
    \/ TranscribeCheck \/ TranscribeChunk \/ TranscribeChunkFails
    \/ RunStopCheck \/ RunFormat \/ CorrectParse \/ CorrectCheck \/ FormatSort
    \/ FormatRepair \/ FormatFinish \/ RunCorrected \/ RunWrite \/ RunCleanup
    \/ RunFailed \/ StopProcess

SpecRun == InitRun /\ [][NextRun]_vars

\* The end of a run alone: transcribe_audio from format_transcript on, over
\* the transcripts the steps before it may have left.
SaveTimes(k) == {<<k - 1, k>>, <<0, 1>>, <<HundredHours, HundredHours + 1>>}

\* The k-th segment: its text a word, padded, or blank; translated or not,
\* and the translation possibly blank.
SaveSegment(k) ==
    {[start |-> t[1], end |-> t[2], text |-> x] :
        t \in SaveTimes(k), x \in {Words[k], Padded, " "}}
    \cup {[start |-> t[1], end |-> t[2], text |-> Words[k], translated_text |-> y] :
        t \in SaveTimes(k), y \in {"es:" \o Words[k], " "}}

RECURSIVE SaveTranscripts(_)
SaveTranscripts(n) ==
    IF n = 0 THEN {<<>>}
    ELSE {Append(ts, segment) :
            ts \in SaveTranscripts(n - 1), segment \in SaveSegment(n)}

InitSave ==
    /\ SettingsIdle /\ DownloadIdle /\ ConstructIdle /\ WhisperIdle
    /\ run_target_language = None
    /\ stop_button = "normal"
    /\ download_button = "disabled"
    /\ file_button = "disabled"
    /\ pc = "done"
    /\ chunk_length = 1
    /\ duration = 0
    /\ num_chunks = 0
    /\ i = 0
    /\ chunk_paths = <<>>
    /\ ffmpeg_calls = <<>>
    /\ language = None
    /\ progress_callback = TRUE
    /\ stop_event = "clear"
    /\ idx = 0
    /\ \E n \in 0..MaxSegments : transcripts \in SaveTranscripts(n)
    /\ detected_language = "en"
    /\ model_calls = <<>>
    /\ reports = <<>>
    /\ returned = <<[transcripts |-> transcripts,
                     detected_language |-> detected_language]>>
    /\ raised = <<>>
    /\ stop_when = -1
    /\ status = "Starting transcription..."
    /\ retries = 0
    /\ attempt = 0
    /\ target_language = "en"
    /\ dest = None
    /\ provider_calls = <<>>
    /\ entries = <<>>
    /\ sorted_entries = <<>>
    /\ srt_content = <<>>
    /\ files = {"audio"}
    /\ run_stage = "format"
    /\ delete_temp_files \in BOOLEAN

NextSave ==
    \/ RunFormat \/ CorrectParse \/ CorrectCheck \/ FormatSort \/ FormatRepair
    \/ FormatFinish \/ RunCorrected \/ RunWrite \/ RunCleanup \/ RunFailed

SpecSave == InitSave /\ [][NextSave]_vars

\* ------------------------------- TranscribeMonkeyGUI: the controls and a run
\* The window with its three buttons, and the runs started from it one after
\* the other: open_file or download_from_youtube on the GUI thread, then
\* process_file or process_youtube on a thread of its own, which calls
\* transcribe_audio.  Settings are the defaults (chunks of one second here,
\* automatic language detection, no translation, temporary files deleted);
\* the audio has at most MaxChunks chunks.

\* Mutant: start_task leaves Download and Open File enabled.
start_task_keeps_buttons ==
    /\ stop_event' = "clear"
    /\ stop_button' = "normal"
    /\ UNCHANGED <<download_button, file_button>>

\* start_task, called by open_file and download_from_youtube.
start_task ==
    /\ stop_event' = "clear"
    /\ stop_button' = "normal"
    /\ download_button' = "disabled"
    /\ file_button' = "disabled"

\* The thread just started has nothing of the run before it: its locals are
\* new and the logs kept here start again.
ThreadStarted ==
    /\ pc' = "done"
    /\ duration' = 0
    /\ num_chunks' = 0
    /\ i' = 0
    /\ chunk_paths' = <<>>
    /\ ffmpeg_calls' = <<>>
    /\ idx' = 0
    /\ transcripts' = <<>>
    /\ detected_language' = None
    /\ model_calls' = <<>>
    /\ reports' = <<>>
    /\ returned' = <<>>
    /\ raised' = <<>>
    /\ stop_when' = -1
    /\ srt_content' = <<>>
    /\ entries' = <<>>
    /\ sorted_entries' = <<>>

\* open_file with a file chosen in the dialog: start_task, then the thread.
OpenFile ==
    /\ UNCHANGED hostVars
    /\ file_button = "normal"
    /\ start_task
    /\ ThreadStarted
    /\ run_stage' = "process_file"
    /\ UNCHANGED <<chunk_length, language, progress_callback, translateVars,
                   guiVars, files, delete_temp_files>>

\* download_from_youtube with a URL in the entry: start_task, then the
\* thread.  (With no URL it warns and returns before start_task.)
DownloadFromYoutube ==
    /\ UNCHANGED hostVars
    /\ download_button = "normal"
    /\ start_task
    /\ ThreadStarted
    /\ run_stage' = "process_youtube"
    /\ UNCHANGED <<chunk_length, language, progress_callback, translateVars,
                   guiVars, files, delete_temp_files>>

DownloaderTypeError ==
    "TypeError: Downloader.__init__() got an unexpected keyword argument 'stop_event'"
LoadModelError == "RuntimeError: whisper.load_model"
ConversionError == "FFmpeg conversion error: stderr"

\* process_youtube, its first statement, before the try:
\* Downloader(progress_callback=..., stop_event=self.stop_event), and
\* Downloader.__init__ takes progress_callback only.  The exception ends
\* the thread.
ProcessYoutubeConstruct ==
    /\ UNCHANGED hostVars
    /\ run_stage = "process_youtube"
    /\ raised' = <<DownloaderTypeError>>
    /\ run_stage' = "dead"
    /\ UNCHANGED <<pc, chunk_length, chunk_paths, progress_callback, stop_event,
                   reports, returned, stop_when, splitVars, transcribeVars,
                   translateVars, guiVars, srtVars, files, delete_temp_files,
                   taskVars>>

\* process_file, its first statement, before the try: Transcriber(...),
\* which loads the Whisper model.  An exception ends the thread.
ProcessFileConstruct ==
    /\ UNCHANGED hostVars
    /\ run_stage = "process_file"
    /\ \E ok \in BOOLEAN :
         IF ok
         THEN /\ run_stage' = "convert"
              /\ raised' = raised
         ELSE /\ raised' = <<LoadModelError>>
              /\ run_stage' = "dead"
    /\ UNCHANGED <<pc, chunk_length, chunk_paths, progress_callback, stop_event,
                   reports, returned, stop_when, splitVars, transcribeVars,
                   translateVars, guiVars, srtVars, files, delete_temp_files,
                   taskVars>>

\* process_file, in the try: convert_to_audio.
ProcessFileConvert ==
    /\ UNCHANGED hostVars
    /\ run_stage = "convert"
    /\ \E ok \in BOOLEAN :
         IF ok
         THEN /\ files' = files \union {"audio"}
              /\ status' = "Conversion complete. Starting transcription..."
              /\ run_stage' = "transcribe_audio"
              /\ raised' = raised
         ELSE /\ raised' = <<ConversionError>>
              /\ run_stage' = "process_file_failed"
              /\ UNCHANGED <<files, status>>
    /\ UNCHANGED <<pc, chunk_length, chunk_paths, progress_callback, stop_event,
                   reports, returned, stop_when, splitVars, transcribeVars,
                   translateVars, srtVars, delete_temp_files, taskVars>>

\* transcribe_audio, before its try: Transcriber(...) loads the model again;
\* then the first statements of the try, up to the call of split_audio.
TranscribeAudioConstruct ==
    /\ UNCHANGED hostVars
    /\ run_stage = "transcribe_audio"
    /\ \E ok \in BOOLEAN :
         IF ok
         THEN /\ status' = "Splitting audio into chunks..."
              /\ pc' = "sp_probe"
              /\ run_stage' = "split"
              /\ raised' = raised
         ELSE /\ raised' = <<LoadModelError>>
              /\ run_stage' = "process_file_failed"
              /\ UNCHANGED <<pc, status>>
    /\ UNCHANGED <<chunk_length, chunk_paths, progress_callback, stop_event,
                   reports, returned, stop_when, splitVars, transcribeVars,
                   translateVars, srtVars, files, delete_temp_files, taskVars>>

\* `except Exception as e:` of process_file.
ProcessFileFailed ==
    /\ UNCHANGED hostVars
    /\ run_stage = "process_file_failed"
    /\ status' = IF StopSet(stop_event)
                 THEN "Process stopped." ELSE "Failed to process file."
    /\ run_stage' = "ended"
    /\ UNCHANGED <<pc, chunk_length, chunk_paths, progress_callback, stop_event,
                   reports, returned, raised, stop_when, splitVars,
                   transcribeVars, translateVars, srtVars, files,
                   delete_temp_files, taskVars>>

\* Mutant: end_task clears the stop event as well.
EndTaskClearsStopEvent ==
    /\ UNCHANGED hostVars
    /\ run_stage = "ended"
    /\ stop_event' = "clear"
    /\ stop_button' = "disabled"
    /\ download_button' = "normal"
    /\ file_button' = "normal"
    /\ run_stage' = "none"
    /\ UNCHANGED <<pc, chunk_length, chunk_paths, progress_callback, reports,
                   returned, raised, stop_when, splitVars, transcribeVars,
                   translateVars, guiVars, srtVars, files, delete_temp_files>>

\* `finally: self.end_task()` of process_file, once transcribe_audio has
\* returned or the handler has run.
EndTask ==
    /\ UNCHANGED hostVars
    /\ run_stage = "ended"
    /\ stop_button' = "disabled"
    /\ download_button' = "normal"
    /\ file_button' = "normal"
    /\ run_stage' = "none"
    /\ UNCHANGED <<pc, chunk_length, chunk_paths, progress_callback, stop_event,
                   reports, returned, raised, stop_when, splitVars,
                   transcribeVars, translateVars, guiVars, srtVars, files,
                   delete_temp_files>>

\* The window as create_widgets leaves it: Stop disabled, no run.
InitTask ==
    /\ SettingsIdle /\ DownloadIdle /\ ConstructIdle /\ WhisperIdle
    /\ run_target_language = None
    /\ stop_button = "disabled"
    /\ download_button = "normal"
    /\ file_button = "normal"
    /\ pc = "done"
    /\ chunk_length = 1
    /\ duration = 0
    /\ num_chunks = 0
    /\ i = 0
    /\ chunk_paths = <<>>
    /\ ffmpeg_calls = <<>>
    /\ language = None
    /\ progress_callback = TRUE
    /\ stop_event = "clear"
    /\ idx = 0
    /\ transcripts = <<>>
    /\ detected_language = None
    /\ model_calls = <<>>
    /\ reports = <<>>
    /\ returned = <<>>
    /\ raised = <<>>
    /\ stop_when = -1
    /\ status = ""
    /\ retries = 0
    /\ attempt = 0
    /\ target_language = "en"
    /\ dest = None
    /\ provider_calls = <<>>
    /\ entries = <<>>
    /\ sorted_entries = <<>>
    /\ srt_content = <<>>
    /\ files = {}
    /\ run_stage = "none"
    /\ delete_temp_files = TRUE

\* What the thread of a run does.
ThreadStep ==
    \/ ProcessYoutubeConstruct \/ ProcessFileConstruct \/ ProcessFileConvert
    \/ TranscribeAudioConstruct \/ RunProbe \/ SplitCheck \/ SplitChunk
    \/ RunStartTranscription \/ TranscribeCheck \/ TranscribeChunk
    \/ TranscribeChunkFails \/ RunStopCheck \/ RunFormat \/ CorrectParse
    \/ CorrectCheck \/ FormatSort \/ FormatRepair \/ FormatFinish
    \/ RunCorrected \/ RunWrite \/ RunCleanup \/ RunFailed
    \/ ProcessFileFailed \/ EndTask

NextTask == OpenFile \/ DownloadFromYoutube \/ StopProcess \/ ThreadStep

SpecTask == InitTask /\ [][NextTask]_vars

\* The thread of a run is scheduled as long as it has a step to take.
FairSpecTask == SpecTask /\ WF_vars(ThreadStep)

\* The pipeline and the window at rest: no run, nothing on disk.
PipelineIdle ==
    /\ stop_button = "disabled"
    /\ download_button = "normal"
    /\ file_button = "normal"
    /\ pc = "done"
    /\ chunk_length = 1
    /\ duration = 0
    /\ num_chunks = 0
    /\ i = 0
    /\ chunk_paths = <<>>
    /\ ffmpeg_calls = <<>>
    /\ language = None
    /\ progress_callback = TRUE
    /\ stop_event = "clear"
    /\ idx = 0
    /\ transcripts = <<>>
    /\ detected_language = None
    /\ model_calls = <<>>
    /\ reports = <<>>
    /\ returned = <<>>
    /\ raised = <<>>
    /\ stop_when = -1
    /\ status = ""
    /\ retries = 0
    /\ attempt = 0
    /\ target_language = "es"
    /\ dest = None
    /\ provider_calls = <<>>
    /\ files = {}
    /\ run_stage = "none"
    /\ delete_temp_files = TRUE
    /\ entries = <<>>
    /\ sorted_entries = <<>>
    /\ srt_content = <<>>

\* The host's helpers before their first call: no download directory, no
\* cached model file, no Transcriber.
InitHost ==
    /\ PipelineIdle
    /\ SettingsIdle /\ DownloadIdle /\ ConstructIdle /\ WhisperIdle
    /\ run_target_language = None

\* ------------------------------------- whisper_utils.download_whisper_model
\* The cache holds one file per variant, cache_dir / Path(url).name; the
\* variable target_path is that file for the variant "base": <<>> when it
\* does not exist, else <<its content>>, a sequence of blocks.  Published
\* is the content whose SHA-256 is the one named in the URL: the hash is
\* taken to be free of collisions, so the comparison of the digests is the
\* comparison of the contents.
Published == [k \in 1..MaxBlocks |-> k]

sha256_matches(model_bytes) == model_bytes = Published

\* source.read(8192) raising (connection reset, timeout) instead of
\* returning a block.
ReadRaises == -1

\* What a response can deliver: up to MaxBlocks blocks, each a block of the
\* published file or anything else (0), then end of data or an exception.
Responses ==
    LET Delivered == UNION {[1..n -> 0..MaxBlocks] : n \in 0..MaxBlocks}
    IN  Delivered \cup {Append(d, ReadRaises) : d \in Delivered}

WhisperEnded(variant, result, downloaded) ==
    wm_outcomes' = Append(wm_outcomes, [variant |-> variant, result |-> result,
                                        downloaded |-> downloaded])

\* The call up to the with statement: the URL lookup, the early return on
\* an existing file, urlopen(url), then open(target_path, "wb"), which
\* creates the file empty.
WhisperStart ==
    /\ wm_pc = "idle"
    /\ Len(wm_outcomes) < MaxDownloads
    /\ \E variant \in {"base", "unknown"} :
          IF variant = "unknown"
          THEN /\ WhisperEnded(variant, "ValueError", FALSE)
               /\ UNCHANGED <<target_path, source, wm_pc>>
          ELSE IF target_path # <<>>
          THEN /\ WhisperEnded(variant, "returned", FALSE)
               /\ UNCHANGED <<target_path, source, wm_pc>>
          ELSE \/ /\ WhisperEnded(variant, "URLError", FALSE)
                  /\ UNCHANGED <<target_path, source, wm_pc>>
               \/ /\ \E response \in Responses : source' = response
                  /\ target_path' = << <<>> >>
                  /\ wm_pc' = "read"
                  /\ UNCHANGED wm_outcomes
    /\ UNCHANGED <<pc, chunk_length, chunk_paths, progress_callback, stop_event,
                   reports, returned, raised, stop_when, splitVars,
                   transcribeVars, translateVars, guiVars, srtVars, runVars,
                   taskVars, settingsVars, downloadVars, constructVars>>

\* One turn of the while loop: read a block; end of data leaves the loop
\* and the with statement; a block is written; an exception leaves the
\* function through the with statement, which closes the file and keeps it.
WhisperRead ==
    /\ wm_pc = "read"
    /\ IF source = <<>>
       THEN /\ wm_pc' = "verify"
            /\ UNCHANGED <<target_path, source, wm_outcomes>>
       ELSE IF Head(source) = ReadRaises
       THEN /\ WhisperEnded("base", "ConnectionError", TRUE)
            /\ source' = <<>>
            /\ wm_pc' = "idle"
            /\ UNCHANGED target_path
       ELSE /\ target_path' = <<Append(target_path[1], Head(source))>>
            /\ source' = Tail(source)
            /\ UNCHANGED <<wm_pc, wm_outcomes>>
    /\ UNCHANGED <<pc, chunk_length, chunk_paths, progress_callback, stop_event,
                   reports, returned, raised, stop_when, splitVars,
                   transcribeVars, translateVars, guiVars, srtVars, runVars,
                   taskVars, settingsVars, downloadVars, constructVars>>

\* After the with statement: the digest of the file against the expected
\* one; on a mismatch the file is unlinked and RuntimeError raised.
WhisperVerify ==
    /\ wm_pc = "verify"
    /\ IF sha256_matches(target_path[1])
       THEN /\ WhisperEnded("base", "returned", TRUE)
            /\ UNCHANGED target_path
       ELSE /\ target_path' = <<>>
            /\ WhisperEnded("base", "RuntimeError", TRUE)
    /\ wm_pc' = "idle"
    /\ UNCHANGED <<pc, chunk_length, chunk_paths, progress_callback, stop_event,
                   reports, returned, raised, stop_when, splitVars,
                   transcribeVars, translateVars, guiVars, srtVars, runVars,
                   taskVars, settingsVars, downloadVars, constructVars, source>>

SpecWhisper ==
    InitHost /\ [][WhisperStart
                       \/ WhisperRead
                       \/ WhisperVerify]_vars

\* ------------------------------------ processor: Transcriber.__init__

LoadCalled(dev, outcome) ==
    load_model_calls' = Append(load_model_calls,
        [name |-> model_variant, device |-> dev, outcome |-> outcome])

\* if torch.cuda.is_available(): ... elif hasattr(torch.backends, "mps")
\* and is_available() and is_built(): ... else: ...
TranscriberChoose ==
    /\ init_pc = "start"
    /\ device' = IF torch.cuda THEN "cuda"
                 ELSE IF torch.has_mps /\ torch.mps_available /\ torch.mps_built
                 THEN "mps"
                 ELSE "cpu"
    /\ init_pc' = "load"
    /\ UNCHANGED <<torch, load_model_calls, self_device, self_model>>
    /\ UNCHANGED <<pc, chunk_length, chunk_paths, progress_callback, stop_event,
                   reports, returned, raised, stop_when, splitVars,
                   transcribeVars, translateVars, guiVars, srtVars, runVars,
                   taskVars, settingsVars, downloadVars, whisperVars>>

\* try: self.model = whisper.load_model(model_variant, device=device);
\* self.device = device.  RuntimeError goes to the handler, any other
\* exception leaves the constructor.
TranscriberLoad ==
    /\ init_pc = "load"
    /\ \E outcome \in {"ok", "RuntimeError", "OSError"} :
          /\ LoadCalled(device, outcome)
          /\ IF outcome = "ok"
             THEN /\ self_model' = device
                  /\ self_device' = device
                  /\ init_pc' = "constructed"
             ELSE /\ init_pc' = IF outcome = "RuntimeError" THEN "fallback"
                                ELSE "failed"
                  /\ UNCHANGED <<self_model, self_device>>
    /\ UNCHANGED <<torch, device>>
    /\ UNCHANGED <<pc, chunk_length, chunk_paths, progress_callback, stop_event,
                   reports, returned, raised, stop_when, splitVars,
                   transcribeVars, translateVars, guiVars, srtVars, runVars,
                   taskVars, settingsVars, downloadVars, whisperVars>>

TranscriberFallbackKeepsDevice ==
    /\ init_pc = "fallback"
    /\ \E outcome \in {"ok", "RuntimeError", "OSError"} :
          /\ LoadCalled("cpu", outcome)
          /\ IF outcome = "ok"
             THEN /\ self_model' = "cpu"
                  /\ self_device' = device
                  /\ init_pc' = "constructed"
             ELSE /\ init_pc' = "failed"
                  /\ UNCHANGED <<self_model, self_device>>
    /\ UNCHANGED <<torch, device>>
    /\ UNCHANGED <<pc, chunk_length, chunk_paths, progress_callback, stop_event,
                   reports, returned, raised, stop_when, splitVars,
                   transcribeVars, translateVars, guiVars, srtVars, runVars,
                   taskVars, settingsVars, downloadVars, whisperVars>>

\* except RuntimeError: self.model = whisper.load_model(model_variant,
\* device="cpu"); self.device = "cpu".  An exception here leaves the
\* constructor.
TranscriberFallback ==
    /\ init_pc = "fallback"
    /\ \E outcome \in {"ok", "RuntimeError", "OSError"} :
          /\ LoadCalled("cpu", outcome)
          /\ IF outcome = "ok"
             THEN /\ self_model' = "cpu"
                  /\ self_device' = "cpu"
                  /\ init_pc' = "constructed"
             ELSE /\ init_pc' = "failed"
                  /\ UNCHANGED <<self_model, self_device>>
    /\ UNCHANGED <<torch, device>>
    /\ UNCHANGED <<pc, chunk_length, chunk_paths, progress_callback, stop_event,
                   reports, returned, raised, stop_when, splitVars,
                   transcribeVars, translateVars, guiVars, srtVars, runVars,
                   taskVars, settingsVars, downloadVars, whisperVars>>

\* Transcriber(model_variant) about to run, on any hardware.
InitConstruct ==
    /\ PipelineIdle
    /\ DownloadIdle /\ WhisperIdle
    /\ model_variant \in {"base", "small"}
    /\ transcriber = None
    /\ run_model_variant = None
    /\ run_target_language = None
    /\ torch \in [cuda : BOOLEAN, has_mps : BOOLEAN, mps_available : BOOLEAN,
                  mps_built : BOOLEAN]
    /\ device = None
    /\ load_model_calls = <<>>
    /\ self_device = None
    /\ self_model = None
    /\ init_pc = "start"

SpecConstruct ==
    InitConstruct /\ [][TranscriberChoose
                         \/ TranscriberLoad
                         \/ TranscriberFallback]_vars

\* ----------------------------------------- Downloader.download_audio
\* A message is a sequence of its parts, so that an f-string is the
\* concatenation of its literal part and the message it embeds.
MakedirsFailed == <<"[Errno 13] Permission denied: 'downloads'">>
SocketErrors == {<<"timed out">>, <<"[Errno -2] Name or service not known">>}
NoVideoInformation == <<"Failed to retrieve video information.">>
UnexpectedErrorMessage ==
    <<"An unexpected error occurred while trying to download the video.">>
ConversionFailed == <<"Audio conversion failed.">>

\* How a call ended: the exception class or "returned", the message the
\* caller gets (or the path returned), and the message of the failure as
\* it was first described, <<>> when nothing failed.
AudioEnded(result, message, cause) ==
    dl_outcomes' = Append(dl_outcomes, [result |-> result, message |-> message,
                                        cause |-> cause])

\* if not os.path.exists(download_path): try: os.makedirs(download_path)
\* except OSError as e: raise DownloaderError(f"Failed to create ...: {e}")
DownloadAudioMakedirs ==
    /\ dl_pc = "idle"
    /\ Len(dl_outcomes) < MaxAcquisitions
    /\ IF download_dir
       THEN /\ dl_pc' = "extract"
            /\ UNCHANGED <<download_dir, dl_outcomes>>
       ELSE \/ /\ download_dir' = TRUE
               /\ dl_pc' = "extract"
               /\ UNCHANGED dl_outcomes
            \/ /\ AudioEnded("DownloaderError",
                             <<"Failed to create directory 'downloads': ">>
                                \o MakedirsFailed,
                             MakedirsFailed)
               /\ UNCHANGED <<download_dir, dl_pc>>
    /\ UNCHANGED info_dict
    /\ UNCHANGED <<pc, chunk_length, chunk_paths, progress_callback, stop_event,
                   reports, returned, raised, stop_when, splitVars,
                   transcribeVars, translateVars, guiVars, srtVars, runVars,
                   taskVars, settingsVars, constructVars, whisperVars>>

\* The try around extract_info, which raises socket.timeout or
\* socket.gaierror, raises yt-dlp's DownloadError, returns None or returns
\* the video's info: the DownloaderError raised inside the try for None is
\* caught by its own `except Exception`.
DownloadAudioExtract ==
    /\ dl_pc = "extract"
    /\ \/ /\ \E e \in SocketErrors :
                AudioEnded("NetworkError",
                    <<"Network error occurred while trying to download the video.">>,
                    e)
          /\ dl_pc' = "idle"
          /\ info_dict' = None
       \/ /\ AudioEnded("DownloaderError", UnexpectedErrorMessage,
                         <<"ERROR: [youtube] id: Video unavailable">>)
          /\ dl_pc' = "idle"
          /\ info_dict' = None
       \/ /\ AudioEnded("DownloaderError", UnexpectedErrorMessage,
                         NoVideoInformation)
          /\ dl_pc' = "idle"
          /\ info_dict' = None
       \/ /\ info_dict' = "info"
          /\ dl_pc' = "check"
          /\ UNCHANGED dl_outcomes
    /\ UNCHANGED download_dir
    /\ UNCHANGED <<pc, chunk_length, chunk_paths, progress_callback, stop_event,
                   reports, returned, raised, stop_when, splitVars,
                   transcribeVars, translateVars, guiVars, srtVars, runVars,
                   taskVars, settingsVars, constructVars, whisperVars>>

\* if not os.path.exists(audio_path): raise AudioConversionError(...);
\* return audio_path
DownloadAudioCheck ==
    /\ dl_pc = "check"
    /\ \E exists \in BOOLEAN :
          IF exists
          THEN AudioEnded("returned", <<"downloads/id.mp3">>, <<>>)
          ELSE AudioEnded("AudioConversionError", ConversionFailed,
                          ConversionFailed)
    /\ dl_pc' = "idle"
    /\ UNCHANGED <<download_dir, info_dict>>
    /\ UNCHANGED <<pc, chunk_length, chunk_paths, progress_callback, stop_event,
                   reports, returned, raised, stop_when, splitVars,
                   transcribeVars, translateVars, guiVars, srtVars, runVars,
                   taskVars, settingsVars, constructVars, whisperVars>>

SpecDownload ==
    InitHost /\ [][DownloadAudioMakedirs
                        \/ DownloadAudioExtract
                        \/ DownloadAudioCheck]_vars

\* ------------------------- gui/settings_gui.py and the host's cached model
\* open_settings.save_local_settings of gui/settings_gui.py with the
\* assignment of old_variant moved below the assignments into gui.settings.
settings_gui_save_reads_variant_late ==
    /\ \E cl \in 1..MaxChunkLength, mv \in {"base", "small"}, dt \in BOOLEAN,
          tl \in {"es", "de"} :
          /\ chunk_length' = cl
          /\ model_variant' = mv
          /\ delete_temp_files' = dt
          /\ target_language' = tl
          /\ LET old_variant == mv
             IN  transcriber' = IF mv # old_variant THEN None ELSE transcriber
    /\ UNCHANGED <<pc, chunk_paths, progress_callback, stop_event, reports,
                   returned, raised, stop_when, splitVars, transcribeVars,
                   retries, attempt, dest, provider_calls, guiVars, srtVars,
                   files, run_stage, taskVars, run_model_variant,
                   run_target_language, downloadVars, constructVars,
                   whisperVars>>

\* open_settings.save_local_settings (gui/settings_gui.py): old_variant is
\* read first, the widgets' values are assigned into gui.settings, and a
\* changed model variant drops the host's model: gui.transcriber = None.
settings_gui_save_local_settings ==
    /\ \E cl \in 1..MaxChunkLength, mv \in {"base", "small"}, dt \in BOOLEAN,
          tl \in {"es", "de"} :
          LET old_variant == model_variant
          IN  /\ chunk_length' = cl
              /\ model_variant' = mv
              /\ delete_temp_files' = dt
              /\ target_language' = tl
              /\ transcriber' = IF mv # old_variant THEN None ELSE transcriber
    /\ UNCHANGED <<pc, chunk_paths, progress_callback, stop_event, reports,
                   returned, raised, stop_when, splitVars, transcribeVars,
                   retries, attempt, dest, provider_calls, guiVars, srtVars,
                   files, run_stage, taskVars, run_model_variant,
                   run_target_language, downloadVars, constructVars,
                   whisperVars>>

\* The host's side of the cache, which gui/settings_gui.py only writes to:
\* a run takes gui.transcriber when there is one and otherwise constructs
\* Transcriber(model_variant=settings['model_variant']) and keeps it.  A
\* construction that raises leaves the cache empty and ends the run.
CachedRunStart ==
    /\ run_stage \in {"none", "ended"}
    /\ IF transcriber # None
       THEN /\ run_model_variant' = transcriber
            /\ run_stage' = "cached_run"
            /\ UNCHANGED <<transcriber, load_model_calls>>
       ELSE /\ Len(load_model_calls) < MaxLoads
            /\ \E outcome \in {"ok", "OSError"} :
                  /\ LoadCalled("cpu", outcome)
                  /\ IF outcome = "ok"
                     THEN /\ transcriber' = model_variant
                          /\ run_model_variant' = model_variant
                          /\ run_stage' = "cached_run"
                     ELSE /\ run_model_variant' = None
                          /\ run_stage' = "ended"
                          /\ UNCHANGED transcriber
    /\ run_target_language' = target_language
    /\ UNCHANGED <<pc, chunk_length, chunk_paths, progress_callback, stop_event,
                   reports, returned, raised, stop_when, splitVars,
                   transcribeVars, translateVars, guiVars, srtVars, files,
                   delete_temp_files, taskVars, model_variant, downloadVars,
                   torch, device, self_device, self_model, init_pc,
                   whisperVars>>

\* The run is over; the cached model stays with the host.
CachedRunEnd ==
    /\ run_stage = "cached_run"
    /\ run_stage' = "ended"
    /\ UNCHANGED <<pc, chunk_length, chunk_paths, progress_callback, stop_event,
                   reports, returned, raised, stop_when, splitVars,
                   transcribeVars, translateVars, guiVars, srtVars, files,
                   delete_temp_files, taskVars, hostVars>>

SpecSettings ==
    InitHost /\ [][settings_gui_save_local_settings
                        \/ CachedRunStart
                        \/ CachedRunEnd]_vars

\* ------------------------------------------------ what the logs say
\* The segments the recognizer answered in one call ([] when it raised).
CallSegments(call) ==
    IF call.ok /\ "segments" \in DOMAIN call.result THEN call.result.segments ELSE <<>>

\* A segment list moved by `off` seconds.
Shift(segs, off) ==
    [k \in DOMAIN segs |-> [segs[k] EXCEPT !.start = @ + off, !.end = @ + off]]

\* The first n calls' segments, as answered (chunk-local times).
RECURSIVE LocalSegments(_, _)
LocalSegments(calls, n) ==
    IF n = 0 THEN <<>> ELSE LocalSegments(calls, n - 1) \o CallSegments(calls[n])

\* The first n calls' segments on the global timeline: chunk c's moved by c * len.
RECURSIVE GlobalSegments(_, _, _)
GlobalSegments(calls, n, len) ==
    IF n = 0 THEN <<>>
    ELSE GlobalSegments(calls, n - 1, len)
         \o Shift(CallSegments(calls[n]), calls[n].chunk * len)

TextsOf(segs) == [k \in DOMAIN segs |-> segs[k].text]

\* A call whose answer carries a detected-language value.
CarriesDetection(call) ==
    /\ call.ok
    /\ "language" \in DOMAIN call.result
    /\ call.result.language # None

\* The detection of the first call that carries one, None when none does.
FirstDetection(calls) ==
    IF \E j \in DOMAIN calls : CarriesDetection(calls[j])
    THEN LET j == CHOOSE j \in DOMAIN calls :
                    /\ CarriesDetection(calls[j])
                    /\ \A m \in 1..(j - 1) : ~CarriesDetection(calls[m])
         IN calls[j].result.language
    ELSE None

AllCallsOk == \A j \in DOMAIN model_calls : model_calls[j].ok
TranscribeReturned == pc = "done" /\ returned # <<>>

\* C1: every segment transcribe_chunks returns has the recognizer's
\* chunk-local start and end plus its chunk's start offset
\* (chunk index * chunk_length); none stays chunk-relative.
C1_TimestampsOffsetByChunkStart ==
    TranscribeReturned =>
        returned[1].transcripts
            = GlobalSegments(model_calls, Len(model_calls), chunk_length)

\* C2: when every chunk's local segments are in ascending order, the
\* returned aggregate has non-decreasing start times, chunk boundaries
\* included.
C2_StartsNonDecreasing ==
    TranscribeReturned =>
        \A k \in 1..(Len(returned[1].transcripts) - 1) :
            returned[1].transcripts[k].start <= returned[1].transcripts[k + 1].start

\* C3: with no language hint, the returned detected language is the
\* detection of the first chunk whose result carries one; a chunk without a
\* detection does not set it, and a later chunk never overwrites it.
C3_FirstCarriedDetectionWins ==
    (TranscribeReturned /\ language = None) =>
        returned[1].detected_language = FirstDetection(model_calls)

\* C4: the stop event set while chunk k is recognized (or right after it):
\* transcribe_chunks returns, without raising, exactly the segments of
\* chunks 0..k, chunk k's in full, and the recognizer is not invoked for any
\* later chunk.
C4_StopMidRunKeepsWholeChunks ==
    (pc = "done" /\ stop_when >= 1 /\ AllCallsOk) =>
        /\ raised = <<>>
        /\ returned # <<>>
        /\ Len(model_calls) = stop_when
        /\ \A j \in 1..stop_when : model_calls[j].chunk = j - 1
        /\ Len(returned[1].transcripts) = Len(LocalSegments(model_calls, stop_when))
        /\ TextsOf(returned[1].transcripts)
               = TextsOf(LocalSegments(model_calls, stop_when))

C4_Witness ==
    /\ pc = "done"
    /\ stop_when = 1
    /\ Len(chunk_paths) >= 2
    /\ AllCallsOk
    /\ Len(model_calls) = 1
    /\ Len(CallSegments(model_calls[1])) >= 2
    /\ returned # <<>>

\* C5: the stop event already set when transcribe_chunks starts: the
\* recognizer is invoked zero times, nothing is reported, and the result is
\* an empty segment list with no detected language.
C5_StopBeforeStartDoesNothing ==
    (stop_when = 0) =>
        /\ model_calls = <<>>
        /\ reports = <<>>
        /\ raised = <<>>
        /\ pc = "done" =>
              returned = <<[transcripts |-> <<>>, detected_language |-> None]>>

C5_Witness ==
    /\ pc = "done"
    /\ stop_when = 0
    /\ Len(chunk_paths) >= 2
    /\ progress_callback
    /\ returned = <<[transcripts |-> <<>>, detected_language |-> None]>>

\* C6: the recognizer raising on chunk i makes transcribe_chunks raise and
\* return nothing, not even the segments of chunks 0..i-1; each chunk is
\* handed to the recognizer at most once and none after chunk i.
C6_RecognizerFailureAbortsRun ==
    /\ \A j \in DOMAIN model_calls : model_calls[j].chunk = chunk_paths[j]
    /\ \A j \in DOMAIN model_calls :
          ~model_calls[j].ok =>
              /\ j = Len(model_calls)
              /\ pc = "done"
              /\ raised # <<>>
              /\ returned = <<>>

C6_Witness ==
    /\ pc = "done"
    /\ Len(model_calls) = 2
    /\ ~model_calls[2].ok
    /\ transcripts # <<>>
    /\ returned = <<>>

\* The number of calls the recognizer answered (chunks completed).
Completed == Cardinality({j \in DOMAIN model_calls : model_calls[j].ok})

\* C7: with a progress sink, transcribe_chunks reports once per completed
\* chunk, in chunk order, ((i+1)/total*100, i+1, total, "Transcription"); no
\* chunk is skipped and the percent never decreases.
C7_OneReportPerCompletedChunk ==
    progress_callback =>
        /\ Len(reports) = Completed
        /\ \A k \in DOMAIN reports :
              /\ reports[k].current = k
              /\ reports[k].total = Len(chunk_paths)
              /\ reports[k].stage = "Transcription"
              /\ reports[k].percent.num * Len(chunk_paths)
                     = k * 100 * reports[k].percent.den
        /\ \A k \in 1..(Len(reports) - 1) :
              reports[k].percent.num * reports[k + 1].percent.den
                  <= reports[k + 1].percent.num * reports[k].percent.den

C7_Witness ==
    /\ pc = "done"
    /\ progress_callback
    /\ Len(chunk_paths) = MaxChunks
    /\ Len(reports) = MaxChunks
    /\ returned # <<>>

\* C8: with a non-null language hint, the same hint goes to the recognizer
\* for every chunk, detection is skipped, and the returned detected language
\* is null whatever the recognizer reports.
C8_HintForwardedDetectionSkipped ==
    (language # None) =>
        /\ \A j \in DOMAIN model_calls : model_calls[j].language = language
        /\ detected_language = None
        /\ returned # <<>> => returned[1].detected_language = None

C8_Witness ==
    /\ pc = "done"
    /\ language # None
    /\ returned # <<>>
    /\ Len(model_calls) >= 2
    /\ \A j \in DOMAIN model_calls : CarriesDetection(model_calls[j])

\* A split the stop event cut short: set before every chunk had been started.
SplitCancelled == stop_when >= 0 /\ stop_when < num_chunks
SplitReturned == pc = "done" /\ returned # <<>>

\* C9: for every duration D >= 0 and chunk length L > 0 a split neither
\* cancelled nor failed returns exactly floor(D/L)+1 chunks in index order,
\* chunk i starting at offset i*L.
C9_ChunkCountAndOffsets ==
    (SplitReturned /\ ~SplitCancelled) =>
        LET n == Len(returned[1]) IN
        /\ n >= 1
        /\ (n - 1) * chunk_length <= duration
        /\ duration < n * chunk_length
        /\ Len(ffmpeg_calls) = n
        /\ \A k \in 1..n :
              /\ returned[1][k] = k - 1
              /\ ffmpeg_calls[k].ss = (k - 1) * chunk_length

C9_Witness ==
    /\ SplitReturned
    /\ ~SplitCancelled
    /\ chunk_length = 2
    /\ duration = 4
    /\ Len(returned[1]) = 3

\* C10: chunk i covers exactly [i*L, min((i+1)*L, D)): the span asked of the
\* transcoder for the last chunk never extends past D, and the spans of all
\* chunks sum to exactly D.
C10_RequestedSpansStayWithinDuration ==
    \A k \in DOMAIN ffmpeg_calls :
        /\ ffmpeg_calls[k].ss = (k - 1) * chunk_length
        /\ ffmpeg_calls[k].ss + ffmpeg_calls[k].t
               = Min(k * chunk_length, duration)

\* The transcoder failed on the chunk it was asked for last.
TranscoderFailed ==
    ffmpeg_calls # <<>> /\ ~ffmpeg_calls[Len(ffmpeg_calls)].ok
AllTranscodesOk == \A k \in DOMAIN ffmpeg_calls : ffmpeg_calls[k].ok

\* C11: the transcoder failing on chunk i makes split abort with an error
\* describing the failure: no later chunk is attempted, no chunk list is
\* returned, and the chunks 0..i-1 already produced are handed back to the
\* caller for cleanup.
C11_FailedSplitHandsBackChunks ==
    (pc = "done" /\ TranscoderFailed) =>
        /\ raised # <<>>
        /\ raised[1].stage = "FFmpeg error during chunk extraction"
        /\ returned = <<>>
        /\ Len(ffmpeg_calls) = Len(chunk_paths) + 1
        /\ chunk_paths # <<>> =>
              /\ "chunks" \in DOMAIN raised[1]
              /\ raised[1].chunks = chunk_paths

\* C12: split reads the stop event once before each chunk; once it reads it
\* set, no further chunk is transcoded and split returns, without raising,
\* exactly the in-order prefix of chunks produced so far (possibly empty).
C12_StopReturnsPrefix ==
    (pc = "done" /\ num_chunks > 0 /\ SplitCancelled /\ AllTranscodesOk) =>
        /\ raised = <<>>
        /\ returned = <<[k \in 1..stop_when |-> k - 1]>>
        /\ Len(ffmpeg_calls) = stop_when
        /\ \A k \in DOMAIN ffmpeg_calls : ffmpeg_calls[k].ss = (k - 1) * chunk_length

C12_Witness ==
    /\ pc = "done"
    /\ SplitCancelled
    /\ AllTranscodesOk
    /\ stop_when = 2
    /\ num_chunks >= 4
    /\ returned = <<<<0, 1>>>>

C12_WitnessEmpty ==
    /\ pc = "done"
    /\ stop_when = 0
    /\ num_chunks >= 2
    /\ returned = <<<<>>>>

\* ------------------------------------------------ translation: the logs
\* The provider calls made for segment j (0-based), in call order.
CallsFor(j) == SelectSeq(provider_calls, LAMBDA c : c.seg = j)
PrimaryCallsFor(j) == SelectSeq(provider_calls,
                                LAMBDA c : c.seg = j /\ c.provider = "google")
FallbackCallsFor(j) == SelectSeq(provider_calls,
                                 LAMBDA c : c.seg = j /\ c.provider = "mymemory")
SomeOk(calls) == \E k \in DOMAIN calls : calls[k].ok

\* The segments translate_text has returned for: 0 .. idx-1.
Translated == 0..(idx - 1)
HasTranslation(j) == "translated_text" \in DOMAIN transcripts[j + 1]

\* C14: the primary provider failing on every attempt is invoked exactly
\* `retries` times; only after the last of these is the fallback invoked,
\* exactly once, and when the fallback succeeds its output is what
\* translate_text returns.
C14_FallbackAfterRetriesExhausted ==
    /\ pc = "tl_fallback" =>
          /\ Len(PrimaryCallsFor(idx)) = retries
          /\ FallbackCallsFor(idx) = <<>>
    /\ \A j \in Translated :
          ~SomeOk(PrimaryCallsFor(j)) =>
              /\ Len(PrimaryCallsFor(j)) = retries
              /\ Len(FallbackCallsFor(j)) = 1
              /\ CallsFor(j) = PrimaryCallsFor(j) \o FallbackCallsFor(j)
              /\ FallbackCallsFor(j)[1].text = transcripts[j + 1].text
              /\ FallbackCallsFor(j)[1].ok =>
                    transcripts[j + 1].translated_text
                        = "mymemory:" \o FallbackCallsFor(j)[1].dest \o ":"
                          \o transcripts[j + 1].text

C14_Witness ==
    /\ pc = "format"
    /\ retries = MaxRetries
    /\ Len(transcripts) >= 1
    /\ Len(PrimaryCallsFor(0)) = MaxRetries
    /\ ~SomeOk(PrimaryCallsFor(0))
    /\ SomeOk(FallbackCallsFor(0))

\* C15: when the primary fails on all attempts and the fallback fails too,
\* translate_text returns the original text and raises nothing; whatever the
\* providers do, the translation loop never aborts and never drops a segment:
\* every segment reached before a stop ends with translated_text set.
C15_TotalFailurePassesTextThrough ==
    /\ raised = <<>>
    /\ idx <= Len(transcripts)
    /\ pc = "format" => idx = Len(transcripts)
    /\ \A k \in DOMAIN transcripts : transcripts[k].text = Words[k]
    /\ \A j \in Translated :
          /\ HasTranslation(j)
          /\ ~SomeOk(CallsFor(j)) =>
                transcripts[j + 1].translated_text = transcripts[j + 1].text

C15_Witness ==
    /\ pc = "format"
    /\ retries >= 2
    /\ Len(transcripts) >= 2
    /\ \A k \in DOMAIN provider_calls : ~provider_calls[k].ok
    /\ \A j \in Translated :
          transcripts[j + 1].translated_text = transcripts[j + 1].text

\* C16: the primary succeeding on attempt k (1 <= k <= retries) makes
\* translate_text return the primary's output at once: k primary calls, each
\* with (text, target language), no further attempt, no fallback.
C16_PrimarySuccessReturnsAtOnce ==
    \A j \in Translated :
        SomeOk(PrimaryCallsFor(j)) =>
            LET calls == PrimaryCallsFor(j)
                k == Len(calls)
            IN /\ 1 <= k /\ k <= retries
               /\ calls[k].ok
               /\ \A m \in 1..(k - 1) : ~calls[m].ok
               /\ \A m \in 1..k : /\ calls[m].text = transcripts[j + 1].text
                                  /\ calls[m].dest = target_language
               /\ FallbackCallsFor(j) = <<>>
               /\ CallsFor(j) = calls
               /\ transcripts[j + 1].translated_text
                      = "google:" \o target_language \o ":" \o transcripts[j + 1].text

C16_Witness ==
    /\ pc = "format"
    /\ retries = MaxRetries
    /\ Len(transcripts) >= 2
    /\ Len(PrimaryCallsFor(0)) = 1
    /\ Len(PrimaryCallsFor(1)) = MaxRetries
    /\ SomeOk(PrimaryCallsFor(0))
    /\ SomeOk(PrimaryCallsFor(1))

\* C17: the translation loop takes the segments one at a time in their
\* order: a provider call for a segment comes only after every earlier
\* segment has its translated_text and its report ((i+1)/total*100, i+1,
\* total, "Translation"), and there is exactly one report per translated
\* segment.
C17_SegmentsInOrderOneReportEach ==
    /\ Len(reports) = idx
    /\ \A j \in Translated : HasTranslation(j)
    /\ \A k \in DOMAIN provider_calls :
          /\ provider_calls[k].seg = provider_calls[k].reported
          /\ provider_calls[k].seg <= idx
          /\ k > 1 => provider_calls[k - 1].seg <= provider_calls[k].seg
    /\ \A k \in DOMAIN reports :
          /\ reports[k].current = k
          /\ reports[k].total = Len(transcripts)
          /\ reports[k].stage = "Translation"
          /\ reports[k].percent.num * Len(transcripts)
                 = k * 100 * reports[k].percent.den

C17_Witness ==
    /\ pc = "format"
    /\ Len(transcripts) = MaxSegments
    /\ Len(reports) = MaxSegments
    /\ Len(provider_calls) > MaxSegments

\* C18: the stop event is read before each segment; once read set, no
\* further provider call is made, the segments translated before keep their
\* translated_text, every remaining segment has none (the formatter takes
\* its text), and no segment's text was changed.
C18_StopLeavesRestUntranslated ==
    /\ \A k \in DOMAIN transcripts :
          /\ transcripts[k].text = Words[k]
          /\ k <= idx => "translated_text" \in DOMAIN transcripts[k]
          /\ k > idx =>
                /\ "translated_text" \notin DOMAIN transcripts[k]
                /\ Get(transcripts[k], "translated_text", transcripts[k].text)
                       = transcripts[k].text
    /\ stop_when >= 0 =>
          /\ \A k \in DOMAIN provider_calls : provider_calls[k].seg < stop_when
          /\ pc \in {"done", "format"} => idx = stop_when
          /\ (pc = "done" /\ stop_when < Len(transcripts)) =>
                status = "Process stopped."

C18_Witness ==
    /\ pc = "done"
    /\ status = "Process stopped."
    /\ stop_when = 1
    /\ Len(transcripts) = 3
    /\ HasTranslation(0)
    /\ Len(provider_calls) >= 2

\* ------------------------------------------------ subtitles: the documents
\* correct_srt_format has returned a document.
Corrected == pc = "done" /\ returned # <<>> /\ entries # <<>>

\* The blocks of the returned document as format_srt wrote them: four lines
\* each.
Blocks ==
    [k \in 1..(Len(returned[1]) \div 4) |->
        [index_line |-> returned[1][4 * k - 3],
         timecode_line |-> returned[1][4 * k - 2],
         text |-> returned[1][4 * k - 1]]]

StartOf(block) == block.timecode_line.start
EndOf(block) == block.timecode_line.end

\* C19: in the corrected document every entry starts at or after the end of
\* the entry before it, for any number of entries and any input timestamps,
\* chains of overlapping entries included.
C19_StartNotBeforePredecessorEnd ==
    Corrected =>
        \A k \in 1..(Len(Blocks) - 1) : StartOf(Blocks[k + 1]) >= EndOf(Blocks[k])

\* A document of three entries or more has been corrected in which an entry
\* that did not overlap its predecessor in the sorted input was moved all the
\* same, because the predecessor's end had been pushed past its start.
C19_Witness ==
    /\ Corrected
    /\ Len(Blocks) >= 3
    /\ \E k \in 2..(Len(Blocks) - 1) :
         /\ sorted(entries)[k + 1].start >= sorted(entries)[k].end
         /\ EndOf(Blocks[k]) > sorted(entries)[k].end
         /\ StartOf(Blocks[k + 1]) > sorted(entries)[k + 1].start

\* C20: in the corrected document every entry that has a predecessor ends
\* after it starts, whatever the input timestamps were.
C20_EndAfterStart ==
    Corrected =>
        \A k \in 2..Len(Blocks) : EndOf(Blocks[k]) > StartOf(Blocks[k])

\* An entry whose input end is not after its start and that does not overlap
\* its predecessor comes out as it went in.
C20_UnrepairedInputReached ==
    /\ Corrected
    /\ \E k \in 2..Len(Blocks) :
         /\ sorted(entries)[k].end <= sorted(entries)[k].start
         /\ StartOf(Blocks[k]) = sorted(entries)[k].start
         /\ EndOf(Blocks[k]) <= StartOf(Blocks[k])

\* An entry whose input end is after its start comes out with end = start:
\* "00:00:00,009" + 0.001 is below "00:00:00,010", so the end is kept, and
\* the new start is written as "00:00:00,010".
C20_RepairedToEmptyReached ==
    /\ Corrected
    /\ \E k \in 2..Len(Blocks) :
         /\ sorted(entries)[k].end > sorted(entries)[k].start
         /\ EndOf(Blocks[k]) = StartOf(Blocks[k])

\* The blocks of a document read by its layout, without the pattern: an index
\* line, a time code line, the text lines up to the next blank line.
RECURSIVE TextRun(_, _)
TextRun(doc, p) ==
    IF p > Len(doc) \/ IsBlank(doc[p]) THEN <<>>
    ELSE <<doc[p].s>> \o TextRun(doc, p + 1)

RECURSIVE BlocksFrom(_, _)
BlocksFrom(doc, p) ==
    IF p + 1 > Len(doc) THEN <<>>
    ELSE IF IsDigits(doc[p]) /\ IsTimecode(doc[p + 1])
    THEN LET text == TextRun(doc, p + 2)
         IN <<[index |-> doc[p].s, start |-> doc[p + 1].start,
               end |-> doc[p + 1].end, text |-> text]>>
            \o BlocksFrom(doc, p + 2 + Len(text))
    ELSE BlocksFrom(doc, p + 1)

InputBlocks == BlocksFrom(srt_content, 1)

\* The text lines of a block as one text.
RECURSIVE JoinLines(_)
JoinLines(text) ==
    IF text = <<>> THEN ""
    ELSE IF Len(text) = 1 THEN text[1]
    ELSE text[1] \o "\n" \o JoinLines(Tail(text))

\* C21: correct is idempotent: correcting the corrected document of any
\* document with at least one parsable entry gives that corrected document
\* again, with no index, timestamp or text changed.
C21_CorrectIsIdempotent ==
    Corrected =>
        /\ parse_srt(returned[1]) # <<>>
        /\ format_srt(parse_srt(returned[1])) = returned[1]

\* The input whose last block has no text and sorts before another block:
\* in the corrected document the empty text is followed by the next index
\* line, which the second parse takes for the text.
C21_SecondPassLosesEntryReached ==
    /\ Corrected
    /\ Len(parse_srt(returned[1])) < Len(entries)

\* On documents whose entries all have text, the second pass changes nothing.
C21_IdempotentWhenEveryEntryHasText ==
    (Corrected /\ \A k \in DOMAIN entries : entries[k].text # "") =>
        format_srt(parse_srt(returned[1])) = returned[1]

\* C22: the corrected document of a document with N parsed entries has N
\* blocks, and their index lines are 1, 2, ..., N in output order, whatever
\* the indices of the input were.
C22_IndicesAreOneToN ==
    Corrected =>
        /\ Len(returned[1]) = 4 * Len(entries)
        /\ \A k \in 1..Len(entries) : Blocks[k].index_line = Line(ToString(k))

\* Three entries or more, two of them with the same input index and none of
\* the input indices in place, have been corrected.
C22_Witness ==
    /\ Corrected
    /\ Len(entries) >= 3
    /\ \E j, k \in DOMAIN entries : j # k /\ entries[j].index = entries[k].index
    /\ \A k \in DOMAIN entries : entries[k].index # k

\* sorted_entries holds the same entries as es, each as often.
SameEntries(es, fs) ==
    /\ Len(es) = Len(fs)
    /\ \A e \in {es[k] : k \in DOMAIN es} :
         Cardinality({k \in DOMAIN es : es[k] = e})
            = Cardinality({k \in DOMAIN fs : fs[k] = e})

\* C23: the sort puts the parsed entries in ascending order of start time,
\* and the starts of the corrected document are still in non-decreasing
\* order after the repair.
C23_SortedByStartAndRepairKeepsOrder ==
    /\ (pc = "fs_repair" /\ i = 1) =>
          /\ SameEntries(entries, sorted_entries)
          /\ \A k \in 1..(Len(sorted_entries) - 1) :
                sorted_entries[k].start <= sorted_entries[k + 1].start
    /\ Corrected =>
          \A k \in 1..(Len(Blocks) - 1) :
              StartOf(Blocks[k]) <= StartOf(Blocks[k + 1])

\* Entries that were parsed out of start order have been corrected, and the
\* repair moved the start of one of them.
C23_Witness ==
    /\ Corrected
    /\ Len(entries) >= 3
    /\ \E k \in 1..(Len(entries) - 1) : entries[k].start > entries[k + 1].start
    /\ \E k \in DOMAIN entries :
          \A j \in DOMAIN entries : StartOf(Blocks[k]) # entries[j].start

\* The input document is in order: indices 1..N, starts ascending, no block
\* starting before the block before it ends.
InputInOrder ==
    /\ InputBlocks # <<>>
    /\ \A k \in DOMAIN InputBlocks : InputBlocks[k].index = ToString(k)
    /\ \A k \in 1..(Len(InputBlocks) - 1) :
          /\ InputBlocks[k].start <= InputBlocks[k + 1].start
          /\ InputBlocks[k].end <= InputBlocks[k + 1].start

\* C24: a document already in order (indices 1..N, ascending starts, no
\* overlap) comes back unchanged: the same blocks with the same indices,
\* timestamps and text, blank lines aside.
C24_DocumentInOrderUnchanged ==
    (pc = "done" /\ InputInOrder) =>
        /\ returned # <<>>
        /\ BlocksFrom(returned[1], 1) = InputBlocks

\* An in-order document with a block of two text lines came back with the
\* second line gone.
C24_TextLineGoneReached ==
    /\ pc = "done" /\ InputInOrder /\ returned # <<>>
    /\ \E k \in DOMAIN InputBlocks : Len(InputBlocks[k].text) = 2
    /\ \A k \in 1..Len(BlocksFrom(returned[1], 1)) :
          Len(BlocksFrom(returned[1], 1)[k].text) = 1

\* In-order documents with one text line in every block do come back
\* unchanged.
C24_SingleLineDocumentUnchanged ==
    (pc = "done" /\ InputInOrder
        /\ \A k \in DOMAIN InputBlocks : Len(InputBlocks[k].text) = 1) =>
        /\ returned # <<>>
        /\ BlocksFrom(returned[1], 1) = InputBlocks

\* C26: of a document whose blocks all have one text line or more, parse_srt
\* recovers one entry per block, in order, and the text of the entry holds
\* every text line of the block.
C26_EveryTextLineParsed ==
    (pc = "cs_parsed" /\ \A k \in DOMAIN InputBlocks : InputBlocks[k].text # <<>>) =>
        /\ Len(entries) = Len(InputBlocks)
        /\ \A k \in DOMAIN InputBlocks :
              entries[k].text = JoinLines(InputBlocks[k].text)

\* What does hold: one entry per block, with the first text line only.
C26_FirstTextLineParsed ==
    (pc = "cs_parsed" /\ \A k \in DOMAIN InputBlocks : InputBlocks[k].text # <<>>) =>
        /\ Len(entries) = Len(InputBlocks)
        /\ \A k \in DOMAIN InputBlocks :
              /\ entries[k].text = InputBlocks[k].text[1]
              /\ entries[k].start = InputBlocks[k].start
              /\ entries[k].end = InputBlocks[k].end
              /\ ToString(entries[k].index) = InputBlocks[k].index

\* ------------------------------------------------ the run: chunk files
\* The chunk files the Segmenter created in this run.
ChunksCreated ==
    {k \in 0..(Len(ffmpeg_calls) - 1) : ffmpeg_calls[k + 1].ok}

ChunkFilesCreated == {ChunkFile(k) : k \in ChunksCreated}

\* The recognizer calls that were handed chunk file k.
CallsOnChunk(k) == {n \in 1..Len(model_calls) : model_calls[n].chunk = k}

RunEnded == run_stage = "ended"

\* C13: every chunk file the Segmenter created in a run is passed to the
\* recognizer at most once, and none of them is left on disk once the run
\* has ended.
C13_NoChunkArtifactRemains ==
    /\ \A k \in ChunksCreated : Cardinality(CallsOnChunk(k)) <= 1
    /\ RunEnded => files \intersect ChunkFilesCreated = {}

\* The part of C13 that the code keeps: no chunk file is transcribed twice.
C13_ChunkPassedAtMostOnce ==
    \A k \in ChunksCreated : Cardinality(CallsOnChunk(k)) <= 1

\* A run ended in success, every chunk file transcribed once, the temporary
\* audio removed, and the chunk files still on disk.
C13_ChunksLeftAfterSuccess ==
    /\ RunEnded
    /\ status = "Transcription successful!"
    /\ ChunkFilesCreated # {}
    /\ \A k \in ChunksCreated : Cardinality(CallsOnChunk(k)) = 1
    /\ "audio" \notin files
    /\ ChunkFilesCreated \subseteq files

\* ------------------------------------------------ the run: the file saved
\* correct_srt_format is over on a document that is not empty and in which
\* parse_srt found no entry.
NothingParsed == pc = "done" /\ srt_content # <<>> /\ entries = <<>>

\* C25: when parse_srt recovers no entry from a non-empty document,
\* correct_srt_format raises instead of returning a document, and the run
\* that called it fails: it writes no output file and does not end as a
\* success.
C25_NoEntriesIsFatal ==
    NothingParsed =>
        /\ raised \in {<<ValueError>>, <<SrtFormattingFailed>>}
        /\ returned = <<>>
        /\ "output" \notin files
        /\ run_stage \in {"correct", "failed", "ended"}
        /\ run_stage = "ended" => status = "Failed to transcribe audio."

\* A run on two segments or more, all of them timed past a hundred hours,
\* has ended in failure with its audio file kept and nothing written.
C25_Witness ==
    /\ NothingParsed
    /\ run_stage = "ended"
    /\ Len(transcripts) >= 2
    /\ Len(srt_content) = 4 * Len(transcripts)
    /\ raised = <<SrtFormattingFailed>>
    /\ files = {"audio"}

\* The output file has been written; its content is the document
\* correct_srt_format returned.
Persisted == "output" \in files

\* The text format_transcript writes for a segment.
SegmentText(segment) == strip(Get(segment, "translated_text", segment.text))

TextsSaved ==
    {SegmentText(transcripts[k]) : k \in DOMAIN transcripts}
    \cup {Blocks[k].text.s : k \in DOMAIN Blocks}

\* C27: the document written has exactly one entry per transcript segment,
\* with that segment's text (the translated text when it has one), also when
\* a segment's text is empty once trimmed: every text stands in as many
\* entries as there are segments with it.
C27_OneEntryPerSegment ==
    Persisted =>
        /\ Len(returned[1]) = 4 * Len(transcripts)
        /\ \A x \in TextsSaved :
             Cardinality({k \in DOMAIN Blocks : Blocks[k].text = Line(x)})
             = Cardinality({k \in DOMAIN transcripts :
                              SegmentText(transcripts[k]) = x})

\* A file has been written in which the index line of a segment stands as
\* the text of the blank segment before it, and that segment is gone.
C27_SegmentMergedReached ==
    /\ Persisted
    /\ Len(returned[1]) < 4 * Len(transcripts)
    /\ \E k \in DOMAIN Blocks : Blocks[k].text = Line("2")

\* When every segment has text left after trimming and is timed below a
\* hundred hours, the document written has one entry per segment.
C27_OneEntryPerSegmentWithText ==
    (/\ Persisted
     /\ \A k \in DOMAIN transcripts :
          /\ SegmentText(transcripts[k]) # ""
          /\ transcripts[k].end < HundredHours) =>
        /\ Len(returned[1]) = 4 * Len(transcripts)
        /\ \A x \in TextsSaved :
             Cardinality({k \in DOMAIN Blocks : Blocks[k].text = Line(x)})
             = Cardinality({k \in DOMAIN transcripts :
                              SegmentText(transcripts[k]) = x})

\* ------------------------------------------------ the controls and the flag
\* A run has been started and its end_task has not run yet.
RunInProgress == run_stage # "none"

\* C28: while a run is in progress the stop event is never cleared: once
\* set it stays set until end_task of that run.  It is set only by
\* stop_process, from the enabled Stop button, and cleared only by the
\* start_task of the next run; no step of the pipeline changes it.
C28_StopEventClearedOnlyByNextRun ==
    [][/\ (stop_event = "set" /\ RunInProgress) => stop_event' = "set"
       /\ stop_event' # stop_event =>
            \/ /\ stop_event' = "set"
               /\ stop_button = "normal"
               /\ status' = "Stopping..."
               /\ run_stage' = run_stage
            \/ /\ stop_event' = "clear"
               /\ ~RunInProgress
               /\ run_stage' \in {"process_file", "process_youtube"}]_vars

\* A run was stopped and has ended with the flag still set, and the next
\* run has just been started with the flag cleared.
C28_Witness ==
    /\ run_stage = "process_file"
    /\ status = "Process stopped."
    /\ stop_event = "clear"
    /\ stop_button = "normal"

ControlsReset ==
    /\ stop_button = "disabled"
    /\ download_button = "normal"
    /\ file_button = "normal"

\* C29: every run that is started ends with the controls reset for the next
\* one (Stop disabled, Download and Open File enabled), whether it succeeds,
\* is stopped or fails, a failure of the Downloader or Transcriber
\* constructor included.
C29_RunEndsWithControlsReset ==
    (run_stage \in {"process_file", "process_youtube"}) ~> ControlsReset

\* The thread of a run has died in a constructor and the controls are as
\* start_task left them: nothing can be started and nothing will change.
C29_ThreadDeadControlsNotReset ==
    /\ run_stage = "dead"
    /\ raised # <<>>
    /\ stop_button = "normal"
    /\ download_button = "disabled"
    /\ file_button = "disabled"

\* A run that got past the constructor of process_file ends with the
\* controls reset.
C29_RunPastConstructorEnds == (run_stage = "convert") ~> ControlsReset

Failures == {"Failed to transcribe audio.", "Failed to process file."}

\* C30: a fatal error raised during a run is shown as a failure by the
\* handler that catches it, never as "Process stopped.", whether or not the
\* stop event is set at that time.
C30_FatalErrorShownAsFailure ==
    [][(raised # <<>> /\ run_stage # "ended" /\ run_stage' = "ended")
          => status' \in Failures]_vars

\* A run has ended on an exception with the stop event set and the status
\* says the process was stopped.
C30_ErrorShownAsStopReached ==
    /\ run_stage = "ended"
    /\ raised # <<>>
    /\ StopSet(stop_event)
    /\ status = "Process stopped."

\* With the stop event clear, the handler shows the failure.
C30_ErrorShownAsFailureWhenNotStopped ==
    [][(/\ raised # <<>>
        /\ run_stage # "ended"
        /\ run_stage' = "ended"
        /\ ~StopSet(stop_event))
          => status' \in Failures]_vars

\* ------------------------------------------------ one run at a time
\* C32: at most one run is in progress at any time: while a run is in
\* progress Download and Open File are disabled, and a step that starts a
\* run (it puts a thread at the top of process_file or process_youtube) is
\* taken only when no run is in progress.
C32_OneRunAtATime ==
    [][/\ RunInProgress => (download_button = "disabled" /\ file_button = "disabled")
       /\ (/\ run_stage' \in {"process_file", "process_youtube"}
           /\ run_stage' # run_stage) => ~RunInProgress]_vars

\* A run has written its file and ended, and the next run has been started.
C32_Witness ==
    /\ run_stage = "process_file"
    /\ "output" \in files
    /\ status = "Transcription successful!"
    /\ file_button = "disabled"

\* ------------------------------------------------ a stop late in the run
Success == "Transcription successful!"

\* C36: once the stop event is set during a run, whenever that happens, no
\* later step of the run writes the output file or reports success.
C36_StoppedRunWritesNothing ==
    [][StopSet(stop_event) =>
          /\ "output" \in files' => "output" \in files
          /\ status' = Success => status = Success]_vars

\* The stop event was set after the check that follows transcribe_chunks;
\* the run has written the file and ended as a success.
C36_StoppedRunSucceededReached ==
    /\ run_stage = "ended"
    /\ StopSet(stop_event)
    /\ "output" \in files
    /\ status = Success

\* A run stopped before that check never gets to format_transcript.
C36_StoppedBeforeCheckNeverFormats ==
    [][StopSet(stop_event) => run_stage' # "format"]_vars

\* ------------------------------------------------ subtitles: the repair
\* The entries format_srt repaired, in sorted order, as they came in.
SortedInput == sorted(entries)

\* C35: the repair is one forward pass equal to the reference: entry k,
\* when it starts before the final end of entry k-1, starts one millisecond
\* after that end, and ends two seconds after its new start if its end was
\* not after the new start; otherwise it is left as it was, as is entry 1.
C35_RepairEqualsReference ==
    Corrected =>
        /\ Len(Blocks) = Len(SortedInput)
        /\ Len(Blocks) >= 1 =>
             /\ StartOf(Blocks[1]) = SortedInput[1].start
             /\ EndOf(Blocks[1]) = SortedInput[1].end
        /\ \A k \in 2..Len(Blocks) :
             LET prev_end == EndOf(Blocks[k - 1])
                 given == SortedInput[k]
             IN IF given.start < prev_end
                THEN /\ StartOf(Blocks[k]) = prev_end + 1
                     /\ EndOf(Blocks[k]) =
                          IF given.end <= prev_end + 1
                          THEN prev_end + 1 + 2000 ELSE given.end
                ELSE /\ StartOf(Blocks[k]) = given.start
                     /\ EndOf(Blocks[k]) = given.end

\* An entry overlapping its predecessor has been written with its start
\* equal to the predecessor's end: the millisecond added was lost when the
\* float was written as a time string.
C35_MillisecondLostReached ==
    /\ Corrected
    /\ \E k \in 2..Len(Blocks) :
         /\ SortedInput[k].start < EndOf(Blocks[k - 1])
         /\ StartOf(Blocks[k]) = EndOf(Blocks[k - 1])

\* The pass is the reference up to that millisecond: a repaired start is the
\* predecessor's final end or one millisecond more, a repaired end two
\* seconds after one of these, and every other timestamp is as it came.
C35_RepairEqualsReferenceWithinOneMillisecond ==
    Corrected =>
        /\ Len(Blocks) = Len(SortedInput)
        /\ Len(Blocks) >= 1 =>
             /\ StartOf(Blocks[1]) = SortedInput[1].start
             /\ EndOf(Blocks[1]) = SortedInput[1].end
        /\ \A k \in 2..Len(Blocks) :
             LET prev_end == EndOf(Blocks[k - 1])
                 given == SortedInput[k]
             IN IF given.start < prev_end
                THEN /\ StartOf(Blocks[k]) \in {prev_end, prev_end + 1}
                     /\ EndOf(Blocks[k]) \in
                          {given.end, prev_end + 2000, prev_end + 2001}
                     /\ given.end > prev_end + 1 => EndOf(Blocks[k]) = given.end
                     /\ given.end < prev_end => EndOf(Blocks[k]) # given.end
                ELSE /\ StartOf(Blocks[k]) = given.start
                     /\ EndOf(Blocks[k]) = given.end

\* C38: format_srt writes the entries it was given, as many and each with
\* its text, and moves no timestamp earlier: every entry starts and ends no
\* earlier than it did, and an entry that does not start before the final
\* end of its predecessor keeps both its timestamps.
C38_EntriesKeptNothingMovedEarlier ==
    Corrected =>
        /\ Len(returned[1]) = 4 * Len(entries)
        /\ \A k \in 1..Len(Blocks) :
             /\ Blocks[k].text = Line(SortedInput[k].text)
             /\ StartOf(Blocks[k]) >= SortedInput[k].start
             /\ EndOf(Blocks[k]) >= SortedInput[k].end
             /\ (k = 1 \/ SortedInput[k].start >= EndOf(Blocks[k - 1])) =>
                  /\ StartOf(Blocks[k]) = SortedInput[k].start
                  /\ EndOf(Blocks[k]) = SortedInput[k].end

\* Three entries given out of order have been written: the second starts
\* later than it did, the third did not overlap it and was kept.
C38_Witness ==
    /\ Corrected
    /\ Len(entries) = 3
    /\ SortedInput # entries
    /\ StartOf(Blocks[2]) > SortedInput[2].start
    /\ SortedInput[3].start >= EndOf(Blocks[2])
    /\ StartOf(Blocks[3]) = SortedInput[3].start
    /\ EndOf(Blocks[3]) = SortedInput[3].end

\* ------------------------------------------------ split: the last chunk
\* C39: every chunk split asks the transcoder for covers a non-empty span
\* of the source: it starts strictly before the duration D, for every D and
\* every chunk length, D an exact multiple of the chunk length included.
C39_EveryChunkStartsBeforeEnd ==
    \A k \in DOMAIN ffmpeg_calls : ffmpeg_calls[k].ss < duration

\* A split of audio whose duration is a positive multiple of the chunk
\* length has returned a last chunk that starts where the audio ends.
C39_EmptyLastChunkReached ==
    /\ SplitReturned
    /\ duration > 0
    /\ duration = (Len(returned[1]) - 1) * chunk_length
    /\ ffmpeg_calls[Len(ffmpeg_calls)].ok
    /\ ffmpeg_calls[Len(ffmpeg_calls)].ss = duration

\* No chunk starts after the end of the audio, and only the last chunk of
\* audio whose duration is a multiple of the chunk length starts at the end.
C39_OnlyLastChunkOfExactMultipleIsEmpty ==
    \A k \in DOMAIN ffmpeg_calls :
        /\ ffmpeg_calls[k].ss <= duration
        /\ ffmpeg_calls[k].ss = duration =>
             /\ k = num_chunks
             /\ duration % chunk_length = 0

\* C37: every segment a run translates is translated into the target
\* language that was configured when the run started, even when the
\* settings are saved with another target language during the run.
C37_TranslatedIntoLanguageOfRunStart ==
    \A k \in 1..Len(provider_calls) :
        provider_calls[k].dest = run_target_language

\* C37, the state that refutes it: a settings save during the loop, and
\* two segments of one run sent out with two target languages.
C37_TwoLanguagesInOneRunReached ==
    \E j, k \in 1..Len(provider_calls) :
        /\ provider_calls[j].seg # provider_calls[k].seg
        /\ provider_calls[j].dest # provider_calls[k].dest
        /\ provider_calls[j].dest = run_target_language

\* C37, what the code does keep: every provider call translates into the
\* target language the settings held when its segment was taken up.
C37_TranslatedIntoLanguageOfSegmentStart ==
    [][\A k \in 1..Len(provider_calls') :
          k > Len(provider_calls) => provider_calls'[k].dest = dest]_vars

\* ------------------------------------------------ the model cache
Verified == target_path = <<Published>>

\* C40: between download_whisper_model calls, whatever the calls before
\* did and however they ended, a file at the cache path is a verified
\* one; and a call that returns normally leaves a verified file.
C40_CachedFileIsVerified ==
    /\ (wm_pc = "idle" /\ target_path # <<>>) => Verified
    /\ (wm_outcomes # <<>> /\ wm_pc = "idle"
          /\ wm_outcomes[Len(wm_outcomes)].result = "returned") => Verified

\* C40, the state that refutes it: a transfer that failed part-way left
\* its partial file, and the next call found it and returned normally.
C40_PartialFileAcceptedReached ==
    /\ wm_pc = "idle"
    /\ Len(wm_outcomes) = 2
    /\ wm_outcomes[1].result = "ConnectionError"
    /\ wm_outcomes[2].result = "returned"
    /\ ~Verified

\* C40, what the code does keep: a call that finds a checksum mismatch
\* removes the file and raises, and a call that transferred the file to
\* its end and returns normally leaves a verified file.
C40_VerifiedWhenTransferCompletes ==
    [][(wm_pc = "verify" /\ wm_pc' = "idle") =>
          LET outcome == wm_outcomes'[Len(wm_outcomes')]
          IN  /\ outcome.result \in {"returned", "RuntimeError"}
              /\ outcome.result = "RuntimeError" =>
                    (~sha256_matches(target_path[1]) /\ target_path' = <<>>)
              /\ outcome.result = "returned" => Verified']_vars

\* ------------------------------------------------ the device of the model
Preferred ==
    IF torch.cuda THEN "cuda"
    ELSE IF torch.has_mps /\ torch.mps_available /\ torch.mps_built THEN "mps"
    ELSE "cpu"

ConstructorLeft == init_pc \in {"constructed", "failed"}

\* C34: the first load is on the preferred device (cuda, else mps when
\* available and built, else cpu); a RuntimeError from it is followed by
\* exactly one more load, on the CPU, and nothing else is; and after
\* construction self.device is the device the model was loaded on.
C34_FallbackOnceAndDeviceRecorded ==
    /\ Len(load_model_calls) <= 2
    /\ load_model_calls # <<>> =>
          /\ load_model_calls[1].device = Preferred
          /\ load_model_calls[1].name = model_variant
    /\ Len(load_model_calls) = 2 =>
          /\ load_model_calls[1].outcome = "RuntimeError"
          /\ load_model_calls[2].device = "cpu"
          /\ load_model_calls[2].name = model_variant
    /\ (ConstructorLeft /\ load_model_calls[1].outcome = "RuntimeError") =>
          Len(load_model_calls) = 2
    /\ init_pc = "constructed" =>
          /\ load_model_calls[Len(load_model_calls)].outcome = "ok"
          /\ self_model = load_model_calls[Len(load_model_calls)].device
          /\ self_device = self_model

\* C34, its case: the load on mps raised RuntimeError, the model was
\* loaded on the CPU and the Transcriber says "cpu".
C34_Witness ==
    /\ init_pc = "constructed"
    /\ Len(load_model_calls) = 2
    /\ load_model_calls[1].device = "mps"
    /\ load_model_calls[1].outcome = "RuntimeError"
    /\ self_device = "cpu"
    /\ self_model = "cpu"

\* ------------------------------------------------ acquisition failures
\* The caller's message carries the failure's own message unchanged.
SurfacedVerbatim(outcome) ==
    \E k \in 0..Len(outcome.message) :
        SubSeq(outcome.message, k + 1, Len(outcome.message)) = outcome.cause

AcquisitionFailures ==
    {k \in 1..Len(dl_outcomes) : dl_outcomes[k].cause # <<>>}

\* C33: a failure of the acquisition (the working directory cannot be
\* created, the network fails, the video's information cannot be
\* retrieved, the converted audio is missing) ends download_audio with an
\* exception, and that exception carries the failure's descriptive message
\* unchanged, not a generic one in its place.
C33_AcquisitionFailureSurfacedVerbatim ==
    \A k \in AcquisitionFailures :
        /\ dl_outcomes[k].result # "returned"
        /\ SurfacedVerbatim(dl_outcomes[k])

\* C33, the state that refutes it: the message raised for missing video
\* information was replaced by the generic one on its way to the caller.
C33_MessageReplacedReached ==
    \E k \in AcquisitionFailures :
        /\ dl_outcomes[k].cause = NoVideoInformation
        /\ dl_outcomes[k].message = UnexpectedErrorMessage

\* C33, what the code does keep: every acquisition failure raises a
\* DownloaderError (or a subclass) and never returns a path, and a failure
\* to create the directory or a missing converted file keeps its message.
C33_AcquisitionFailureRaises ==
    \A k \in AcquisitionFailures :
        /\ dl_outcomes[k].result \in
              {"DownloaderError", "NetworkError", "AudioConversionError"}
        /\ dl_outcomes[k].cause \in {MakedirsFailed, ConversionFailed} =>
              SurfacedVerbatim(dl_outcomes[k])

\* ------------------------------------------------ the cached model
CachedRunStarts == run_stage # "cached_run" /\ run_stage' = "cached_run"

====
